---- MODULE Spec2Model ----
(***************************************************************************)
(* Model of pkg/internal/watch: a Handle runs a watch event loop on a      *)
(* background goroutine until a caller-supplied condition is met, an       *)
(* error occurs, the stream closes or the context is done.                 *)
(***************************************************************************)
EXTENDS Integers, Sequences, FiniteSets, TLC

\* ---------------------------------------------------------------- bounds
MaxEvents == 2      \* events the stream producer sends in one behaviour
MaxWaits == 2       \* calls of Handle.Wait made in one behaviour
MaxOptions == 3     \* options given to one WithOptions call
MaxRuns == 2        \* calls of RunCLICommand made in one behaviour

\* ------------------------------------------------------ program constants
ChanCap == 10       \* buffer of the mock watcher's result channel

\* ------------------------------------------------------------ error values
\* An error is the sequence of its message segments (joined by ": " in Go);
\* fmt.Errorf("prefix: %w", cause) puts the prefix in front of the cause, and
\* errors.Unwrap removes it again. The nil error is the empty sequence.
Nil == << >>

Wrap(prefix, cause) == <<prefix>> \o cause

Unwrap(e) == IF e = Nil THEN Nil ELSE Tail(e)

Contains(e, segment) == \E i \in 1..Len(e) : e[i] = segment

Canceled == <<"context canceled">>

DeadlineExceeded == <<"context deadline exceeded">>

errConditionFailed == <<"condition function error">>

errModified == <<"object was modified">>

MsgNilCond == "condition function is nil"

MsgClosed == "watcher results closed unexpectedly"

MsgErrorEvent == "watcher sent an error event"

MsgCondErr == "condition function returned non-nil error"

MsgCtxDone == "handle context done"

\* ------------------------------------------------------------------ events
\* An ERROR event carries either a *metav1.Status or some other object; the
\* other events carry the watched object.
Events ==
    [Type : {"ADDED", "MODIFIED", "DELETED", "BOOKMARK"}, Object : {"obj"}]
        \cup [Type : {"ERROR"}, Object : {"status", "other"}]

\* apierrors.FromObject: a Status becomes a StatusError with the status
\* message, anything else an UnexpectedObjectError.
FromObject(object) ==
    IF object = "status" THEN <<"test error">> ELSE <<"unexpected object">>

\* ------------------------------------------------------ condition functions
\* The condition functions a caller may pass; "nil" is the nil function.
CondFuncs ==
    {"nil", "alwaysTrue", "alwaysFalse", "alwaysErr", "trueOnSecondCall",
     "trueOnDeleted", "errOnModified"}

\* The result (bool, error) of the n-th invocation of condition c on event ev.
CondCall(c, n, ev) ==
    CASE c = "alwaysTrue" -> [met |-> TRUE, err |-> Nil]
      [] c = "alwaysFalse" -> [met |-> FALSE, err |-> Nil]
      [] c = "alwaysErr" -> [met |-> FALSE, err |-> errConditionFailed]
      [] c = "trueOnSecondCall" -> [met |-> n >= 2, err |-> Nil]
      [] c = "trueOnDeleted" -> [met |-> ev.Type = "DELETED", err |-> Nil]
      [] c = "errOnModified" ->
            IF ev.Type = "MODIFIED"
            THEN [met |-> TRUE, err |-> errModified]
            ELSE [met |-> FALSE, err |-> Nil]

Timeouts == {0, 1}

\* --------------------------------------------------------------- variables
VARIABLES
    created,     \* the Handle has been constructed
    started,     \* number of goroutines running Handle.start ever spawned
    cond,        \* handle.cond
    timeout,     \* the timeout passed to start
    resultChan,  \* events buffered in watcher.ResultChan()
    chanClosed,  \* the result channel has been closed
    closedEarly, \* it was closed while start had not yet left its loop
    stopCalls,   \* number of calls of watcher.Stop()
    done,        \* handle.done is closed
    doneCloses,  \* number of close(handle.done) executed
    err,         \* handle.err
    errWrites,   \* number of assignments to handle.err made by start
    pc,          \* position of the goroutine running start
    parentErr,   \* Err() of the context passed to the constructor
    ctxMade,     \* start has derived its own context
    ctxErr,      \* Err() of the context derived by start
    ctxDoneFirst, \* that context became done while start was in its loop, no
                 \* event was buffered and the stream was open
    eventFirst,  \* the context of the Handle became done while the next
                 \* event of the stream was one that meets the condition
    consumed,    \* events start has received from the result channel
    closedSeen,  \* a receive in start reported the channel closed
    calls,       \* invocations of handle.cond: event and result
    waiting,     \* number of callers blocked in Wait on <-handle.done
    waitCalls,   \* number of Wait calls made so far, by any caller
    returned     \* the values Wait has returned so far

handleVars ==
    <<created, started, cond, timeout, resultChan, chanClosed, closedEarly,
      stopCalls, done, doneCloses, err, errWrites, pc, parentErr, ctxMade,
      ctxErr, ctxDoneFirst, eventFirst, consumed, closedSeen, calls, waiting,
      waitCalls, returned>>

watcherVars == <<resultChan, chanClosed, closedEarly>>

waitVars == <<waiting, waitCalls, returned>>

ctxVars == <<parentErr, ctxMade, ctxErr, ctxDoneFirst, eventFirst>>

handleArgs == <<created, started, cond, timeout>>

\* The state of one poll waiter of the BareMetalHost builder (WaitUntilDeleted,
\* WaitUntilInStatus, WaitUntilAnnotationExists) and of the object it fetches.
VARIABLES
    pollKind,       \* the waiter called: "none" before the call
    pollTarget,     \* the status argument of WaitUntilInStatus, the
                    \* annotation argument of WaitUntilAnnotationExists
    pollCluster,    \* the object in the cluster: "absent" or its
                    \* Status.Provisioning.State
    pollAnnotations,\* the annotation keys of the object in the cluster
    pollPc,         \* position of the caller in PollUntilContextTimeout
    pollCtxDone,    \* the deadline of the poll's context has passed
    pollTimerWaits, \* receives from the interval timer made by the loop
    pollFetches,    \* results of the Get calls of the condition function
    pollObject,     \* builder.Object: "nil" or the fetched object's state
    pollErr         \* the error the waiter returned

pollVars ==
    <<pollKind, pollTarget, pollCluster, pollAnnotations, pollPc, pollCtxDone,
      pollTimerWaits, pollFetches, pollObject, pollErr>>

\* The state of one resource builder (ingress, PtpConfig or PtpOperatorConfig,
\* argocd Application), of the cluster object it manages and of the last
\* method called on it.
VARIABLES
    bKind,      \* the builder's package: "none" before it is built
    bValid,     \* validate() accepts the builder
    bCluster,   \* the object in the cluster: "absent", "existing" (as
                \* someone else left it) or "definition" (as the builder's
                \* Definition describes it)
    bObject,    \* builder.Object: "nil", "fetched" or "definition"
    bDefRV,     \* builder.Definition.ResourceVersion: "" or "fetched"
    bOp,        \* the last method called and its force argument
    bCalls,     \* calls to the cluster API made by the last method
    bRet,       \* its first result: "true" or "false" (Exists), "builder"
                \* or "nil", or "panic" when it did not return
    bErr        \* its error result

builderVars ==
    <<bKind, bValid, bCluster, bObject, bDefRV, bOp, bCalls, bRet, bErr>>

\* The state of one BareMetalHost builder under construction: its stored error,
\* the fields of its Definition that NewBuilder and the rootDeviceHints setters
\* write, and the last call made on it.
VARIABLES
    bmhBuilt,   \* NewBuilder has returned the builder
    bmhErr,     \* the builder's stored error (SetError), Nil when none
    bmhDef,     \* Definition.Spec: address, credentialsName, bootMode,
                \* bootMACAddress and rootDeviceHints (<< >> when nil,
                \* else the one record of its fields)
    bmhOp,      \* the last method called and its string argument
    bmhOptions, \* the options given to the last WithOptions call
    bmhApplied  \* positions of the options that call invoked, in order

bmhVars == <<bmhBuilt, bmhErr, bmhDef, bmhOp, bmhOptions, bmhApplied>>

\* The state of the BMC's RunCLICommand: the calls made so far, the caller's
\* position in the current call, and one command goroutine per call.
VARIABLES
    cliRuns,    \* calls of RunCLICommand made so far
    cliPc,      \* the caller: "idle", "select" or "returned"
    cliSession, \* per call, its ssh session: "none", "open", "closed"
    cliTimer,   \* the current call's time.After channel holds a value
    cliGo,      \* per call, its goroutine: "none", "run", "send", "exited"
    cliSent,    \* per call, the error its goroutine offers on errCh
    cliRet,     \* per call, its error result, "none" until it returns
    cliCombine, \* per call, its combineOutput argument
    cliOut      \* per call, where its stdout result comes from: "none"
                \* until it returns, "combinedOutput" or "stdoutBuffer"

cliVars ==
    <<cliRuns, cliPc, cliSession, cliTimer, cliGo, cliSent, cliRet,
      cliCombine, cliOut>>

vars == <<handleVars, pollVars, builderVars, bmhVars, cliVars>>

\* State after newMockWatcher(): an open, empty stream and no Handle yet.
HandleInit ==
    /\ created = FALSE
    /\ started = 0
    /\ cond = "nil"
    /\ timeout = 0
    /\ resultChan = << >>
    /\ chanClosed = FALSE
    /\ closedEarly = FALSE
    /\ stopCalls = 0
    /\ done = FALSE
    /\ doneCloses = 0
    /\ err = Nil
    /\ errWrites = 0
    /\ pc = "none"
    /\ parentErr = Nil
    /\ ctxMade = FALSE
    /\ ctxErr = Nil
    /\ ctxDoneFirst = FALSE
    /\ eventFirst = FALSE
    /\ consumed = << >>
    /\ closedSeen = FALSE
    /\ calls = << >>
    /\ waiting = 0
    /\ waitCalls = 0
    /\ returned = {}

\* No poll waiter has been called.
PollIdle ==
    /\ pollKind = "none"
    /\ pollTarget = "none"
    /\ pollCluster = "absent"
    /\ pollAnnotations = {}
    /\ pollPc = "idle"
    /\ pollCtxDone = FALSE
    /\ pollTimerWaits = 0
    /\ pollFetches = << >>
    /\ pollObject = "nil"
    /\ pollErr = Nil

\* No builder has been made.
BuilderIdle ==
    /\ bKind = "none"
    /\ bValid = FALSE
    /\ bCluster = "absent"
    /\ bObject = "nil"
    /\ bDefRV = ""
    /\ bOp = [name |-> "none", force |-> FALSE]
    /\ bCalls = << >>
    /\ bRet = "nil"
    /\ bErr = Nil

\* bmh.NewBuilder has not been called.
BmhIdle ==
    /\ bmhBuilt = FALSE
    /\ bmhErr = Nil
    /\ bmhDef = [address |-> "", credentialsName |-> "", bootMode |-> "",
                 bootMACAddress |-> "", rootDeviceHints |-> << >>]
    /\ bmhOp = [name |-> "none", arg |-> ""]
    /\ bmhOptions = << >>
    /\ bmhApplied = << >>

\* RunCLICommand has not been called.
CliIdle ==
    /\ cliRuns = 0
    /\ cliPc = "idle"
    /\ cliSession = [r \in 1..MaxRuns |-> "none"]
    /\ cliTimer = FALSE
    /\ cliGo = [r \in 1..MaxRuns |-> "none"]
    /\ cliSent = [r \in 1..MaxRuns |-> "none"]
    /\ cliRet = [r \in 1..MaxRuns |-> "none"]
    /\ cliCombine = [r \in 1..MaxRuns |-> FALSE]
    /\ cliOut = [r \in 1..MaxRuns |-> "none"]

Init == HandleInit /\ PollIdle /\ BuilderIdle /\ BmhIdle /\ CliIdle

\* -------------------------------------------------------------- the stream
\* mockWatcher.sendEvent: put an event into the buffered result channel.
SendEvent(ev) ==
    /\ ~chanClosed
    /\ Len(consumed) + Len(resultChan) < MaxEvents
    /\ Len(resultChan) < ChanCap
    /\ resultChan' = Append(resultChan, ev)
    /\ UNCHANGED <<handleArgs, chanClosed, closedEarly, stopCalls, done,
                   doneCloses, err,
                   errWrites, pc, ctxVars, consumed, closedSeen, calls,
                   waitVars>>
    /\ UNCHANGED <<pollVars, builderVars, bmhVars, cliVars>>

\* mockWatcher.close: close the result channel; buffered events stay readable.
CloseChan ==
    /\ ~chanClosed
    /\ chanClosed' = TRUE
    /\ closedEarly' = (pc \in {"none", "start", "loop"})
    /\ UNCHANGED <<handleArgs, resultChan, stopCalls, done, doneCloses, err,
                   errWrites, pc, ctxVars, consumed, closedSeen, calls,
                   waitVars>>
    /\ UNCHANGED <<pollVars, builderVars, bmhVars, cliVars>>

\* ------------------------------------------------------------- the context
\* A Handle has been made, start has not left its loop, and the event the
\* loop receives next is one its condition function answers (true, nil) to.
SatisfyingNext ==
    /\ created
    /\ cond # "nil"
    /\ pc \in {"start", "loop"}
    /\ resultChan # << >>
    /\ Head(resultChan).Type \notin {"ERROR", "BOOKMARK"}
    /\ LET r == CondCall(cond, Len(calls) + 1, Head(resultChan))
       IN  r.met /\ r.err = Nil

\* The context given to the constructor is cancelled or reaches its own
\* deadline; a context derived from it that is not yet done becomes done with
\* the same error.
ParentDone(cause) ==
    /\ parentErr = Nil
    /\ parentErr' = cause
    /\ ctxErr' = IF ctxMade /\ ctxErr = Nil THEN cause ELSE ctxErr
    /\ ctxDoneFirst' = IF ctxMade /\ ctxErr = Nil
                       THEN pc = "loop" /\ resultChan = << >> /\ ~chanClosed
                       ELSE ctxDoneFirst
    /\ eventFirst' = IF ctxMade /\ ctxErr # Nil
                     THEN eventFirst
                     ELSE SatisfyingNext
    /\ UNCHANGED <<handleArgs, watcherVars, stopCalls, done, doneCloses, err,
                   errWrites, pc, ctxMade, consumed, closedSeen, calls,
                   waitVars>>
    /\ UNCHANGED <<pollVars, builderVars, bmhVars, cliVars>>

\* Mutant of TimeoutElapses: start ignores its timeout, no timer ever fires.
TimeoutIgnored ==
    /\ ctxMade
    /\ timeout > 1
    /\ ctxErr = Nil
    /\ ctxErr' = DeadlineExceeded
    /\ ctxDoneFirst' = (pc = "loop" /\ resultChan = << >> /\ ~chanClosed)
    /\ eventFirst' = SatisfyingNext
    /\ UNCHANGED <<handleArgs, watcherVars, stopCalls, done, doneCloses, err,
                   errWrites, pc, parentErr, ctxMade, consumed, closedSeen,
                   calls, waitVars>>
    /\ UNCHANGED <<pollVars, builderVars, bmhVars, cliVars>>

\* Mutant of TimeoutElapses: the context is built by context.WithTimeout even
\* for a zero timeout, and then expires at once.
TimeoutElapsesAtZero ==
    /\ ctxMade
    /\ timeout >= 0
    /\ ctxErr = Nil
    /\ ctxErr' = DeadlineExceeded
    /\ ctxDoneFirst' = (pc = "loop" /\ resultChan = << >> /\ ~chanClosed)
    /\ eventFirst' = SatisfyingNext
    /\ UNCHANGED <<handleArgs, watcherVars, stopCalls, done, doneCloses, err,
                   errWrites, pc, parentErr, ctxMade, consumed, closedSeen,
                   calls, waitVars>>
    /\ UNCHANGED <<pollVars, builderVars, bmhVars, cliVars>>

\* The timer of context.WithTimeout fires: only a context built with a
\* positive timeout has one.
TimeoutElapses ==
    /\ ctxMade
    /\ timeout > 0
    /\ ctxErr = Nil
    /\ ctxErr' = DeadlineExceeded
    /\ ctxDoneFirst' = (pc = "loop" /\ resultChan = << >> /\ ~chanClosed)
    /\ eventFirst' = SatisfyingNext
    /\ UNCHANGED <<handleArgs, watcherVars, stopCalls, done, doneCloses, err,
                   errWrites, pc, parentErr, ctxMade, consumed, closedSeen,
                   calls, waitVars>>
    /\ UNCHANGED <<pollVars, builderVars, bmhVars, cliVars>>

\* ---------------------------------------------------------- the constructor
\* NewHandleWithTimeout (NewHandle passes timeout 0): build the Handle with a
\* nil error and an open done channel and spawn the goroutine running start.
NewHandleWithTimeout(t, c) ==
    /\ ~created
    /\ created' = TRUE
    /\ cond' = c
    /\ timeout' = t
    /\ done' = FALSE
    /\ err' = Nil
    /\ started' = started + 1
    /\ pc' = "start"
    /\ UNCHANGED <<watcherVars, stopCalls, doneCloses, errWrites, ctxVars,
                   consumed, closedSeen, calls, waitVars>>
    /\ UNCHANGED <<pollVars, builderVars, bmhVars, cliVars>>

\* ------------------------------------------------------------------- start
\* Mutant of ProcessEvent: an ERROR event is handed to the condition function
\* like any other event.
ProcessEventNoErrorCheck(c, n, ev) ==
    IF ev.Type = "BOOKMARK"
    THEN [called |-> FALSE, result |-> [met |-> FALSE, err |-> Nil],
          return |-> FALSE, err |-> Nil]
    ELSE LET r == CondCall(c, n + 1, ev)
         IN  IF r.err # Nil
             THEN [called |-> TRUE, result |-> r, return |-> TRUE,
                   err |-> Wrap(MsgCondErr, r.err)]
             ELSE [called |-> TRUE, result |-> r, return |-> r.met,
                   err |-> Nil]

\* Mutant of ProcessEvent: a BOOKMARK event is handed to the condition
\* function like any other event.
ProcessEventNoBookmarkSkip(c, n, ev) ==
    IF ev.Type = "ERROR"
    THEN [called |-> FALSE, result |-> [met |-> FALSE, err |-> Nil],
          return |-> TRUE,
          err |-> Wrap(MsgErrorEvent, FromObject(ev.Object))]
    ELSE LET r == CondCall(c, n + 1, ev)
         IN  IF r.err # Nil
             THEN [called |-> TRUE, result |-> r, return |-> TRUE,
                   err |-> Wrap(MsgCondErr, r.err)]
             ELSE [called |-> TRUE, result |-> r, return |-> r.met,
                   err |-> Nil]

\* Mutant of ProcessEvent: the bool of the condition is tested before its
\* error, so (true, err) ends the loop without an error.
ProcessEventMetBeforeErr(c, n, ev) ==
    IF ev.Type = "ERROR"
    THEN [called |-> FALSE, result |-> [met |-> FALSE, err |-> Nil],
          return |-> TRUE,
          err |-> Wrap(MsgErrorEvent, FromObject(ev.Object))]
    ELSE IF ev.Type = "BOOKMARK"
    THEN [called |-> FALSE, result |-> [met |-> FALSE, err |-> Nil],
          return |-> FALSE, err |-> Nil]
    ELSE LET r == CondCall(c, n + 1, ev)
         IN  IF r.met
             THEN [called |-> TRUE, result |-> r, return |-> TRUE,
                   err |-> Nil]
             ELSE IF r.err # Nil
             THEN [called |-> TRUE, result |-> r, return |-> TRUE,
                   err |-> Wrap(MsgCondErr, r.err)]
             ELSE [called |-> TRUE, result |-> r, return |-> FALSE,
                   err |-> Nil]

\* Mutant of ProcessEvent: a satisfied condition does not end the loop.
ProcessEventNoReturnOnMet(c, n, ev) ==
    IF ev.Type = "ERROR"
    THEN [called |-> FALSE, result |-> [met |-> FALSE, err |-> Nil],
          return |-> TRUE,
          err |-> Wrap(MsgErrorEvent, FromObject(ev.Object))]
    ELSE IF ev.Type = "BOOKMARK"
    THEN [called |-> FALSE, result |-> [met |-> FALSE, err |-> Nil],
          return |-> FALSE, err |-> Nil]
    ELSE LET r == CondCall(c, n + 1, ev)
         IN  IF r.err # Nil
             THEN [called |-> TRUE, result |-> r, return |-> TRUE,
                   err |-> Wrap(MsgCondErr, r.err)]
             ELSE [called |-> TRUE, result |-> r, return |-> FALSE,
                   err |-> Nil]

\* What one pass through the body of the receive case does with event ev when
\* the condition has been invoked n times before: whether the condition is
\* invoked, whether start returns, and the error it stores.
ProcessEvent(c, n, ev) ==
    IF ev.Type = "ERROR"
    THEN [called |-> FALSE, result |-> [met |-> FALSE, err |-> Nil],
          return |-> TRUE,
          err |-> Wrap(MsgErrorEvent, FromObject(ev.Object))]
    ELSE IF ev.Type = "BOOKMARK"
    THEN [called |-> FALSE, result |-> [met |-> FALSE, err |-> Nil],
          return |-> FALSE, err |-> Nil]
    ELSE LET r == CondCall(c, n + 1, ev)
         IN  IF r.err # Nil
             THEN [called |-> TRUE, result |-> r, return |-> TRUE,
                   err |-> Wrap(MsgCondErr, r.err)]
             ELSE [called |-> TRUE, result |-> r, return |-> r.met,
                   err |-> Nil]

\* The receive case of the loop run over a sequence of events, one after the
\* other, from the loop state st (the invocations made so far, whether start
\* has returned, the error it stored) until start returns or the events end.
RECURSIVE RunLoop(_, _, _)
RunLoop(c, evs, st) ==
    IF evs = << >> \/ st.returned
    THEN st
    ELSE LET ev == Head(evs)
             p == ProcessEvent(c, Len(st.calls), ev)
         IN  RunLoop(c, Tail(evs),
                     [calls |-> IF p.called
                                THEN Append(st.calls,
                                            [ev |-> ev, met |-> p.result.met,
                                             err |-> p.result.err])
                                ELSE st.calls,
                      returned |-> p.return,
                      err |-> p.err])

\* Mutant of StartNilCond: the nil check is made only after a first receive.
StartNilCondAfterReceive ==
    /\ pc = "start"
    /\ cond = "nil"
    /\ ctxMade' = TRUE
    /\ ctxErr' = parentErr
    /\ ctxDoneFirst' = FALSE
    /\ eventFirst' = eventFirst
    /\ resultChan' = IF resultChan = << >> THEN resultChan ELSE Tail(resultChan)
    /\ consumed' = IF resultChan = << >> THEN consumed
                   ELSE Append(consumed, Head(resultChan))
    /\ err' = <<MsgNilCond>>
    /\ errWrites' = errWrites + 1
    /\ pc' = "cancel"
    /\ UNCHANGED <<handleArgs, chanClosed, closedEarly, stopCalls, done,
                   doneCloses,
                   parentErr, closedSeen, calls, waitVars>>
    /\ UNCHANGED <<pollVars, builderVars, bmhVars, cliVars>>

\* toolswatch.ContextWithOptionalTimeout: a context with a timer for a positive
\* timeout, a plain cancellable one otherwise; done at once if the parent is.
\* Then the nil check of the condition function.
StartNilCond ==
    /\ pc = "start"
    /\ cond = "nil"
    /\ ctxMade' = TRUE
    /\ ctxErr' = parentErr
    /\ ctxDoneFirst' = FALSE
    /\ eventFirst' = eventFirst
    /\ err' = <<MsgNilCond>>
    /\ errWrites' = errWrites + 1
    /\ pc' = "cancel"
    /\ UNCHANGED <<handleArgs, watcherVars, stopCalls, done, doneCloses,
                   parentErr, consumed, closedSeen, calls, waitVars>>
    /\ UNCHANGED <<pollVars, builderVars, bmhVars, cliVars>>

StartEnterLoop ==
    /\ pc = "start"
    /\ cond # "nil"
    /\ ctxMade' = TRUE
    /\ ctxErr' = parentErr
    /\ ctxDoneFirst' = (parentErr # Nil /\ resultChan = << >> /\ ~chanClosed)
    /\ eventFirst' = eventFirst
    /\ pc' = "loop"
    /\ UNCHANGED <<handleArgs, watcherVars, stopCalls, done, doneCloses, err,
                   errWrites, parentErr, consumed, closedSeen, calls,
                   waitVars>>
    /\ UNCHANGED <<pollVars, builderVars, bmhVars, cliVars>>

\* Mutant of LoopChanClosed: a closed stream ends the loop without an error.
LoopChanClosedWithoutError ==
    /\ pc = "loop"
    /\ chanClosed
    /\ resultChan = << >>
    /\ closedSeen' = TRUE
    /\ pc' = "cancel"
    /\ UNCHANGED <<handleArgs, watcherVars, stopCalls, done, doneCloses, err,
                   errWrites, ctxVars, consumed, calls, waitVars>>
    /\ UNCHANGED <<pollVars, builderVars, bmhVars, cliVars>>

\* select, receive case with ok = false: the channel is closed and drained.
LoopChanClosed ==
    /\ pc = "loop"
    /\ chanClosed
    /\ resultChan = << >>
    /\ closedSeen' = TRUE
    /\ err' = <<MsgClosed>>
    /\ errWrites' = errWrites + 1
    /\ pc' = "cancel"
    /\ UNCHANGED <<handleArgs, watcherVars, stopCalls, done, doneCloses,
                   ctxVars, consumed, calls, waitVars>>
    /\ UNCHANGED <<pollVars, builderVars, bmhVars, cliVars>>

\* Mutant of LoopEvent: the loop takes the newest buffered event first.
LoopEventTakesLast ==
    /\ pc = "loop"
    /\ resultChan # << >>
    /\ LET ev == resultChan[Len(resultChan)]
           p == ProcessEvent(cond, Len(calls), ev)
       IN  /\ resultChan' = SubSeq(resultChan, 1, Len(resultChan) - 1)
           /\ consumed' = Append(consumed, ev)
           /\ calls' = IF p.called
                       THEN Append(calls, [ev |-> ev, met |-> p.result.met,
                                           err |-> p.result.err])
                       ELSE calls
           /\ err' = IF p.return /\ p.err # Nil THEN p.err ELSE err
           /\ errWrites' = IF p.return /\ p.err # Nil
                           THEN errWrites + 1 ELSE errWrites
           /\ pc' = IF p.return THEN "cancel" ELSE "loop"
    /\ UNCHANGED <<handleArgs, chanClosed, closedEarly, stopCalls, done,
                   doneCloses,
                   ctxVars, closedSeen, waitVars>>
    /\ UNCHANGED <<pollVars, builderVars, bmhVars, cliVars>>

\* select, receive case with an event: one pass through the loop body.
LoopEvent ==
    /\ pc = "loop"
    /\ resultChan # << >>
    /\ LET ev == Head(resultChan)
           p == ProcessEvent(cond, Len(calls), ev)
       IN  /\ resultChan' = Tail(resultChan)
           /\ consumed' = Append(consumed, ev)
           /\ calls' = IF p.called
                       THEN Append(calls, [ev |-> ev, met |-> p.result.met,
                                           err |-> p.result.err])
                       ELSE calls
           /\ err' = IF p.return /\ p.err # Nil THEN p.err ELSE err
           /\ errWrites' = IF p.return /\ p.err # Nil
                           THEN errWrites + 1 ELSE errWrites
           /\ pc' = IF p.return THEN "cancel" ELSE "loop"
    /\ UNCHANGED <<handleArgs, chanClosed, closedEarly, stopCalls, done,
                   doneCloses,
                   ctxVars, closedSeen, waitVars>>
    /\ UNCHANGED <<pollVars, builderVars, bmhVars, cliVars>>

\* Mutant of LoopCtxDone: the context's error is stored as it is.
LoopCtxDoneUnwrapped ==
    /\ pc = "loop"
    /\ ctxErr # Nil
    /\ err' = ctxErr
    /\ errWrites' = errWrites + 1
    /\ pc' = "cancel"
    /\ UNCHANGED <<handleArgs, watcherVars, stopCalls, done, doneCloses,
                   ctxVars, consumed, closedSeen, calls, waitVars>>
    /\ UNCHANGED <<pollVars, builderVars, bmhVars, cliVars>>

\* Mutant of LoopCtxDone: the error is stored and the loop goes on.
LoopCtxDoneKeepsLooping ==
    /\ pc = "loop"
    /\ ctxErr # Nil
    /\ err' = Wrap(MsgCtxDone, ctxErr)
    /\ errWrites' = errWrites + 1
    /\ pc' = IF errWrites = 0 THEN "loop" ELSE "cancel"
    /\ UNCHANGED <<handleArgs, watcherVars, stopCalls, done, doneCloses,
                   ctxVars, consumed, closedSeen, calls, waitVars>>
    /\ UNCHANGED <<pollVars, builderVars, bmhVars, cliVars>>

\* Mutant of LoopCtxDone: the case is taken whether or not the context is
\* done.
LoopCtxDoneAnyTime ==
    /\ pc = "loop"
    /\ err' = Wrap(MsgCtxDone, ctxErr)
    /\ errWrites' = errWrites + 1
    /\ pc' = "cancel"
    /\ UNCHANGED <<handleArgs, watcherVars, stopCalls, done, doneCloses,
                   ctxVars, consumed, closedSeen, calls, waitVars>>
    /\ UNCHANGED <<pollVars, builderVars, bmhVars, cliVars>>

\* select, case <-ctx.Done(). When an event is ready as well, select takes
\* either case.
LoopCtxDone ==
    /\ pc = "loop"
    /\ ctxErr # Nil
    /\ err' = Wrap(MsgCtxDone, ctxErr)
    /\ errWrites' = errWrites + 1
    /\ pc' = "cancel"
    /\ UNCHANGED <<handleArgs, watcherVars, stopCalls, done, doneCloses,
                   ctxVars, consumed, closedSeen, calls, waitVars>>
    /\ UNCHANGED <<pollVars, builderVars, bmhVars, cliVars>>

\* Mutant of DeferCancel: close(handle.done) is deferred last, so it runs
\* before the stream is stopped.
DeferCancelClosesDone ==
    /\ pc = "cancel"
    /\ ctxErr' = IF ctxErr = Nil THEN Canceled ELSE ctxErr
    /\ done' = TRUE
    /\ pc' = "stop"
    /\ UNCHANGED <<handleArgs, watcherVars, stopCalls, doneCloses, err,
                   errWrites, parentErr, ctxMade, ctxDoneFirst, eventFirst,
                   consumed,
                   closedSeen, calls, waitVars>>
    /\ UNCHANGED <<pollVars, builderVars, bmhVars, cliVars>>

\* The deferred calls of start, last deferred first: cancel(), then
\* handle.watcher.Stop(), then close(handle.done).
DeferCancel ==
    /\ pc = "cancel"
    /\ ctxErr' = IF ctxErr = Nil THEN Canceled ELSE ctxErr
    /\ pc' = "stop"
    /\ UNCHANGED <<handleArgs, watcherVars, stopCalls, done, doneCloses, err,
                   errWrites, parentErr, ctxMade, ctxDoneFirst, eventFirst,
                   consumed,
                   closedSeen, calls, waitVars>>
    /\ UNCHANGED <<pollVars, builderVars, bmhVars, cliVars>>

\* Mutant of DeferStop: the stream is stopped on the error paths only.
DeferStopOnErrorOnly ==
    /\ pc = "stop"
    /\ stopCalls' = IF err = Nil THEN stopCalls ELSE stopCalls + 1
    /\ pc' = "close"
    /\ UNCHANGED <<handleArgs, watcherVars, done, doneCloses, err, errWrites,
                   ctxVars, consumed, closedSeen, calls, waitVars>>
    /\ UNCHANGED <<pollVars, builderVars, bmhVars, cliVars>>

DeferStop ==
    /\ pc = "stop"
    /\ stopCalls' = stopCalls + 1
    /\ pc' = "close"
    /\ UNCHANGED <<handleArgs, watcherVars, done, doneCloses, err, errWrites,
                   ctxVars, consumed, closedSeen, calls, waitVars>>
    /\ UNCHANGED <<pollVars, builderVars, bmhVars, cliVars>>

\* Mutant of DeferClose: the goroutine signals completion and goes on looping.
DeferCloseKeepsLooping ==
    /\ pc = "close"
    /\ done' = TRUE
    /\ doneCloses' = doneCloses + 1
    /\ pc' = "loop"
    /\ UNCHANGED <<handleArgs, watcherVars, stopCalls, err, errWrites,
                   ctxVars, consumed, closedSeen, calls, waitVars>>
    /\ UNCHANGED <<pollVars, builderVars, bmhVars, cliVars>>

DeferClose ==
    /\ pc = "close"
    /\ done' = TRUE
    /\ doneCloses' = doneCloses + 1
    /\ pc' = "exited"
    /\ UNCHANGED <<handleArgs, watcherVars, stopCalls, err, errWrites,
                   ctxVars, consumed, closedSeen, calls, waitVars>>
    /\ UNCHANGED <<pollVars, builderVars, bmhVars, cliVars>>

\* -------------------------------------------------------------------- Wait
\* A caller enters Wait and blocks on <-handle.done. Wait keeps no state per
\* caller, so the callers are counted, not named.
WaitCall ==
    /\ created
    /\ waitCalls < MaxWaits
    /\ waitCalls' = waitCalls + 1
    /\ waiting' = waiting + 1
    /\ UNCHANGED <<handleArgs, watcherVars, stopCalls, done, doneCloses, err,
                   errWrites, pc, ctxVars, consumed, closedSeen, calls,
                   returned>>
    /\ UNCHANGED <<pollVars, builderVars, bmhVars, cliVars>>

\* Mutant of WaitReturn: Wait reads handle.err without waiting for done.
WaitReturnWithoutBlocking ==
    /\ waiting > 0
    /\ waiting' = waiting - 1
    /\ returned' = returned \cup {err}
    /\ UNCHANGED <<handleArgs, watcherVars, stopCalls, done, doneCloses, err,
                   errWrites, pc, ctxVars, consumed, closedSeen, calls,
                   waitCalls>>
    /\ UNCHANGED <<pollVars, builderVars, bmhVars, cliVars>>

\* The receive from the closed done channel succeeds; Wait returns handle.err.
WaitReturn ==
    /\ waiting > 0
    /\ done
    /\ waiting' = waiting - 1
    /\ returned' = returned \cup {err}
    /\ UNCHANGED <<handleArgs, watcherVars, stopCalls, done, doneCloses, err,
                   errWrites, pc, ctxVars, consumed, closedSeen, calls,
                   waitCalls>>
    /\ UNCHANGED <<pollVars, builderVars, bmhVars, cliVars>>

Next ==
    \/ \E ev \in Events : SendEvent(ev)
    \/ CloseChan
    \/ \E cause \in {Canceled, DeadlineExceeded} : ParentDone(cause)
    \/ TimeoutElapses
    \/ \E t \in Timeouts, c \in CondFuncs : NewHandleWithTimeout(t, c)
    \/ StartNilCond
    \/ StartEnterLoop
    \/ LoopChanClosed
    \/ LoopEvent
    \/ LoopCtxDone
    \/ DeferCancel
    \/ DeferStop
    \/ DeferClose
    \/ WaitCall
    \/ WaitReturn

Spec == Init /\ [][Next]_vars

\* The steps of the goroutine running start.
TaskStep ==
    \/ StartNilCond
    \/ StartEnterLoop
    \/ LoopChanClosed
    \/ LoopEvent
    \/ LoopCtxDone
    \/ DeferCancel
    \/ DeferStop
    \/ DeferClose

\* The Go scheduler runs a runnable goroutine eventually (the task, a caller
\* whose receive from done can proceed), and the timer of a context with a
\* deadline fires eventually.
FairSpec ==
    /\ Spec
    /\ WF_vars(TaskStep)
    /\ WF_vars(TimeoutElapses)
    /\ WF_vars(WaitReturn)

\* ------------------------------------------------------------- properties
\* start has left its loop: it runs its deferred calls or has returned.
PastLoop == pc \in {"cancel", "stop", "close", "exited"}

\* Events the loop passes to the condition function.
IsCallable(ev) == ev.Type \notin {"ERROR", "BOOKMARK"}

\* C1: whichever way the background task ends, the stream's Stop is called
\* exactly once over the Handle's lifetime: never twice, not before the task
\* leaves its loop, and once by the time completion is signalled.
C1_StopExactlyOnce ==
    /\ stopCalls <= 1
    /\ pc \in {"none", "start", "loop", "cancel", "stop"} => stopCalls = 0
    /\ pc \in {"close", "exited"} => stopCalls = 1
    /\ done => stopCalls = 1

\* C1 witness: a task that met its condition (the success path, error nil)
\* has returned and Stop has been called once.
C1_Witness ==
    /\ pc = "exited"
    /\ err = Nil
    /\ calls # << >>
    /\ stopCalls = 1

\* C2: construction starts exactly one background task; the completion signal
\* fires exactly once; once it has fired the task stays finished, receives no
\* further event and does not invoke the condition again.
C2_RunsOnce ==
    /\ [](/\ started <= 1
          /\ created <=> started = 1
          /\ doneCloses <= 1
          /\ done <=> doneCloses = 1
          /\ done <=> pc = "exited")
    /\ [][done => /\ done'
                  /\ pc' = pc
                  /\ doneCloses' = doneCloses
                  /\ consumed' = consumed
                  /\ calls' = calls
                  /\ Len(resultChan') >= Len(resultChan)]_vars

\* C2 witness: the task is finished while an unread event is still buffered.
C2_Witness ==
    /\ done
    /\ cond # "nil"
    /\ consumed # << >>
    /\ resultChan # << >>

\* C3: every Wait call returns the same single terminal result, the stored
\* error (nil on success), whatever the number of calls and callers; a call
\* that finds the Handle finished is not blocked.
C3_WaitSameResult ==
    /\ returned \subseteq {err}
    /\ returned # {} => done
    /\ (waiting > 0 /\ done) => ENABLED WaitReturn

\* C3 witness: two Wait calls have returned the same stored error.
C3_Witness ==
    /\ waitCalls >= 2
    /\ waiting = 0
    /\ returned = {err}
    /\ err # Nil

\* C4: when the condition returns (true, nil) for an event, that call is the
\* last one, the task leaves the loop with a nil error, Wait returns nil, and
\* the event is the last one received from the stream.
C4_ConditionMet ==
    \A i \in 1..Len(calls) :
        (calls[i].met /\ calls[i].err = Nil) =>
            /\ i = Len(calls)
            /\ PastLoop
            /\ err = Nil
            /\ returned \subseteq {Nil}
            /\ consumed[Len(consumed)] = calls[i].ev
            /\ Len(SelectSeq(consumed, IsCallable)) = Len(calls)

\* C4 witness: the condition was met, Wait returned nil and an event sent
\* after the satisfying one is left unread.
C4_Witness ==
    /\ calls # << >>
    /\ calls[Len(calls)].met
    /\ calls[Len(calls)].err = Nil
    /\ returned = {Nil}
    /\ resultChan # << >>

\* C5: with a nil condition function the task never receives an event and
\* never invokes anything, its stored error is "condition function is nil",
\* and that is what Wait returns.
C5_NilCondition ==
    (created /\ cond = "nil") =>
        /\ consumed = << >>
        /\ calls = << >>
        /\ pc # "loop"
        /\ PastLoop => err = <<MsgNilCond>>
        /\ returned \subseteq {<<MsgNilCond>>}

\* C5 witness: Wait returned the configuration error while events were
\* available on the stream.
C5_Witness ==
    /\ created
    /\ cond = "nil"
    /\ returned = {<<MsgNilCond>>}
    /\ resultChan # << >>

\* Some event received from the stream was terminal: an ERROR event, or one
\* for which the condition returned true or an error.
EventTerminal ==
    \/ \E i \in 1..Len(consumed) : consumed[i].Type = "ERROR"
    \/ \E i \in 1..Len(calls) : calls[i].met \/ calls[i].err # Nil

\* C6 as stated, for a Handle with a condition function: if the stream is
\* closed before any terminal event has been processed (start is still before
\* or in its loop, and it receives no terminal event afterwards either), the
\* Handle ends with the error "watcher results closed unexpectedly".
C6_ClosedAlwaysReported ==
    (pc = "exited" /\ closedEarly /\ cond # "nil" /\ ~EventTerminal) =>
        err = <<MsgClosed>>

\* C6 amended: when a receive finds the stream closed, the task leaves the
\* loop with the error "watcher results closed unexpectedly" and Wait returns
\* it. A task with a condition function whose stream was closed while it was
\* still before or in its loop, and that returned without having received a
\* terminal event, never reports success: it reports the closure, or that its
\* context is done, and the latter only if the context was done before start
\* returned.
C6_StreamClosed ==
    /\ closedSeen =>
        /\ PastLoop
        /\ closedEarly
        /\ resultChan = << >>
        /\ err = <<MsgClosed>>
        /\ returned \subseteq {<<MsgClosed>>}
    /\ (pc = "exited" /\ closedEarly /\ cond # "nil" /\ ~EventTerminal) =>
        /\ err # Nil
        /\ err = <<MsgClosed>> \/ Contains(err, MsgCtxDone)
        /\ (ctxErr = Canceled /\ parentErr = Nil) => err = <<MsgClosed>>

\* C6 witness: the stream was closed after a non-terminal event; the task
\* received the event, found the stream closed, and Wait returned the error.
C6_Witness ==
    /\ closedSeen
    /\ consumed # << >>
    /\ returned = {<<MsgClosed>>}

\* C7: an ERROR event ends the task on that event: it is the last event
\* received, the stored error is "watcher sent an error event" wrapping the
\* error decoded from the event's object, and the condition function is never
\* invoked for an ERROR event.
C7_ErrorEvent ==
    /\ \A i \in 1..Len(consumed) :
        consumed[i].Type = "ERROR" =>
            /\ i = Len(consumed)
            /\ PastLoop
            /\ err = Wrap(MsgErrorEvent, FromObject(consumed[i].Object))
            /\ Contains(err, MsgErrorEvent)
            /\ Unwrap(err) = FromObject(consumed[i].Object)
            /\ returned \subseteq {err}
    /\ \A j \in 1..Len(calls) : calls[j].ev.Type # "ERROR"

\* C7 witness: an ERROR event was received after an event the condition was
\* invoked for, and Wait returned the error wrapping the decoded status.
C7_Witness ==
    /\ Len(consumed) = 2
    /\ consumed[2].Type = "ERROR"
    /\ Len(calls) = 1
    /\ returned = {Wrap(MsgErrorEvent, <<"test error">>)}

\* The sequence of events without its BOOKMARK events.
StripBookmarks(evs) == SelectSeq(evs, LAMBDA ev : ev.Type # "BOOKMARK")

\* C8: BOOKMARK events are never passed to the condition function, and what
\* the task has done after the events it received (the invocations made,
\* whether it left the loop, the stored error) is what the loop does on those
\* events with the BOOKMARK events removed.
C8_BookmarksSkipped ==
    /\ \A j \in 1..Len(calls) : calls[j].ev.Type # "BOOKMARK"
    /\ (created /\ cond # "nil" /\ pc # "start") =>
        LET r == RunLoop(cond, StripBookmarks(consumed),
                         [calls |-> << >>, returned |-> FALSE, err |-> Nil])
        IN  /\ r.calls = calls
            /\ r.returned => PastLoop /\ err = r.err
            /\ ~r.returned =>
                \/ pc = "loop" /\ err = Nil
                \/ PastLoop /\ err = <<MsgClosed>>
                \/ PastLoop /\ Contains(err, MsgCtxDone)

\* C8 witness: a BOOKMARK event followed by an event that satisfies the
\* condition on its first invocation; Wait returned nil.
C8_Witness ==
    /\ Len(consumed) = 2
    /\ consumed[1].Type = "BOOKMARK"
    /\ Len(calls) = 1
    /\ calls[1].met
    /\ returned = {Nil}

\* C9: when the condition returns a non-nil error, whatever its bool, that
\* call is the last one, its event the last one received, and the stored error
\* is "condition function returned non-nil error" wrapping the condition's
\* error.
C9_ConditionError ==
    \A i \in 1..Len(calls) :
        calls[i].err # Nil =>
            /\ i = Len(calls)
            /\ PastLoop
            /\ err = Wrap(MsgCondErr, calls[i].err)
            /\ Unwrap(err) = calls[i].err
            /\ returned \subseteq {err}
            /\ consumed[Len(consumed)] = calls[i].ev
            /\ Len(SelectSeq(consumed, IsCallable)) = Len(calls)

\* C9 witness: the condition returned (true, err) on its second invocation
\* and Wait returned the wrapped error.
C9_Witness ==
    /\ Len(calls) = 2
    /\ calls[2].met
    /\ calls[2].err # Nil
    /\ returned = {Wrap(MsgCondErr, calls[2].err)}

\* C10: when the condition function returns an error, Wait returns that very
\* error value.
C10_WaitReturnsSameError ==
    \A i \in 1..Len(calls) :
        calls[i].err # Nil => returned \subseteq {calls[i].err}

\* C11 as stated: if the context becomes done before any terminal condition
\* has occurred (start is in its loop, no event is buffered and the stream is
\* open), the Handle ends with "handle context done" wrapping the context's
\* error.
C11_CtxDoneAlwaysReported ==
    (pc = "exited" /\ ctxDoneFirst) => err = Wrap(MsgCtxDone, ctxErr)

\* C11 amended: whenever select takes the context-done case the stored error
\* is "handle context done" wrapping the context's error, which is
\* deadline-exceeded only if the timeout or the parent's deadline elapsed and
\* cancellation only if the parent was cancelled; a task with a condition
\* function that returned without a terminal event and without finding the
\* stream closed ended that way. An event or a closure that becomes available
\* after the context is done and before select runs may be taken instead.
C11_ContextDone ==
    /\ Contains(err, MsgCtxDone) =>
        /\ PastLoop
        /\ ctxErr \in {Canceled, DeadlineExceeded}
        /\ err = Wrap(MsgCtxDone, ctxErr)
        /\ Unwrap(err) = ctxErr
        /\ ctxErr = DeadlineExceeded =>
                timeout > 0 \/ parentErr = DeadlineExceeded
        /\ ctxErr = Canceled => parentErr = Canceled
        /\ returned \subseteq {err}
    /\ (pc = "exited" /\ cond # "nil" /\ ~EventTerminal /\ ~closedSeen) =>
        Contains(err, MsgCtxDone)
    /\ (pc = "exited" /\ ctxDoneFirst /\ consumed = << >> /\ ~closedSeen) =>
        Contains(err, MsgCtxDone)

\* C11 witness: the parent context was cancelled while the task waited with
\* nothing to receive; Wait returned the error wrapping context.Canceled.
C11_Witness ==
    /\ ctxDoneFirst
    /\ parentErr = Canceled
    /\ returned = {Wrap(MsgCtxDone, Canceled)}

\* C12: a Handle built with a positive timeout terminates, and every caller
\* blocked in Wait returns; when its stream produced no terminal outcome (no
\* terminal event, no closure found) and its parent context is not done, the
\* stored error, which Wait returns, wraps deadline-exceeded.
C12_TimeoutTerminates ==
    /\ (created /\ timeout > 0) ~> done
    /\ (waiting > 0 /\ timeout > 0) ~> (waiting = 0)
    /\ [](/\ pc = "exited"
          /\ timeout > 0
          /\ cond # "nil"
          /\ ~EventTerminal
          /\ ~closedSeen
          /\ parentErr = Nil
          => /\ err = Wrap(MsgCtxDone, DeadlineExceeded)
             /\ returned \subseteq {err})

\* C12 witness: a Handle with a positive timeout received a non-terminal event
\* and then timed out; Wait returned the deadline-exceeded error.
C12_Witness ==
    /\ timeout > 0
    /\ parentErr = Nil
    /\ consumed # << >>
    /\ ~EventTerminal
    /\ returned = {Wrap(MsgCtxDone, DeadlineExceeded)}

\* C13: a Handle built with a zero timeout has no timer: its context is never
\* done by the passage of time, only by its parent, and the task leaves its
\* loop only on a terminal event, a closed stream or a done parent context.
C13_ZeroTimeout ==
    (created /\ timeout = 0) =>
        /\ ~ENABLED TimeoutElapses
        /\ ctxErr = DeadlineExceeded => parentErr = DeadlineExceeded
        /\ (PastLoop /\ cond # "nil") =>
            \/ EventTerminal
            \/ closedSeen
            \/ /\ parentErr # Nil
               /\ err = Wrap(MsgCtxDone, parentErr)

\* C13 witness: a Handle with a zero timeout waits in its loop, after a
\* non-terminal event, with nothing to receive and a caller blocked in Wait.
C13_Witness ==
    /\ timeout = 0
    /\ pc = "loop"
    /\ consumed # << >>
    /\ resultChan = << >>
    /\ ~chanClosed
    /\ ctxErr = Nil
    /\ waiting > 0

\* ------------------------------------------------------------ poll waiters
MaxFetches == 3     \* Get calls one poll waiter makes in one behaviour

\* k8serrors.NewNotFound, as the client returns it for an absent object.
NotFound == <<"not found">>

\* An error of the cluster API other than not-found, for the call verb.
ApiError(verb) == <<"api call failed", verb>>

\* k8serrors.IsNotFound.
IsNotFound(e) == Contains(e, "not found")

\* The error of a builder that validate() rejects.
errInvalidBuilder == <<"invalid builder error">>

\* Status.Provisioning.State of a BareMetalHost.
ProvisioningStates == {"provisioning", "available"}

\* builder.Get(): the object of the cluster with its annotations, a not-found
\* error when it is absent, another error when the API call fails.
Get(cluster, annotations, fail) ==
    IF fail
    THEN [obj |-> "nil", annotations |-> {}, err |-> ApiError("get")]
    ELSE IF cluster = "absent"
         THEN [obj |-> "nil", annotations |-> {}, err |-> NotFound]
         ELSE [obj |-> cluster, annotations |-> annotations, err |-> Nil]

\* Mutant of UntilDeletedCond: every Get error counts as "gone".
UntilDeletedCondAnyError(got) ==
    IF got.err = Nil
    THEN [ok |-> FALSE, err |-> Nil]
    ELSE [ok |-> TRUE, err |-> Nil]

\* Mutant of UntilDeletedCond: a Get error other than not-found is retried.
UntilDeletedCondRetries(got) ==
    IF got.err = Nil
    THEN [ok |-> FALSE, err |-> Nil]
    ELSE IF IsNotFound(got.err)
         THEN [ok |-> TRUE, err |-> Nil]
         ELSE [ok |-> FALSE, err |-> Nil]

\* The condition function of WaitUntilDeleted, given the result of its Get.
UntilDeletedCond(got) ==
    IF got.err = Nil
    THEN [ok |-> FALSE, err |-> Nil]
    ELSE IF IsNotFound(got.err)
         THEN [ok |-> TRUE, err |-> Nil]
         ELSE [ok |-> FALSE, err |-> got.err]

\* Mutant of UntilInStatusCond: a Get error is returned to the poll loop.
UntilInStatusCondFailsFast(got, status) ==
    IF got.err # Nil
    THEN [ok |-> FALSE, err |-> got.err]
    ELSE IF got.obj = status
         THEN [ok |-> TRUE, err |-> Nil]
         ELSE [ok |-> FALSE, err |-> got.err]

\* The condition function of WaitUntilInStatus, given the result of its Get.
UntilInStatusCond(got, status) ==
    IF got.err # Nil
    THEN [ok |-> FALSE, err |-> Nil]
    ELSE IF got.obj = status
         THEN [ok |-> TRUE, err |-> Nil]
         ELSE [ok |-> FALSE, err |-> got.err]

\* The annotation arguments given to WaitUntilAnnotationExists, and the key
\* the cluster's object may carry.
Annotations == {"", "annotation.openshift.io/test-annotation"}

MsgEmptyAnnotation == <<"bmh annotation key cannot be empty">>
MsgDoesNotExist == <<"baremetalhost object does not exist in namespace">>

\* Mutant of UntilAnnotationExistsCond: a Get error is returned to the poll
\* loop.
UntilAnnotationExistsCondFailsFast(got, annotation) ==
    IF got.err # Nil
    THEN [ok |-> FALSE, err |-> got.err]
    ELSE IF annotation \notin got.annotations
         THEN [ok |-> FALSE, err |-> Nil]
         ELSE [ok |-> TRUE, err |-> Nil]

\* The condition function of WaitUntilAnnotationExists, given the result of
\* its Get: a failed Get is logged and polled again.
UntilAnnotationExistsCond(got, annotation) ==
    IF got.err # Nil
    THEN [ok |-> FALSE, err |-> Nil]
    ELSE IF annotation \notin got.annotations
         THEN [ok |-> FALSE, err |-> Nil]
         ELSE [ok |-> TRUE, err |-> Nil]

\* Test setup and the cluster's controllers: the object appears, changes its
\* provisioning state or is removed.
ClusterSet(state) ==
    /\ pollPc # "done"
    /\ pollCluster # state
    /\ pollCluster' = state
    /\ UNCHANGED <<pollKind, pollTarget, pollPc, pollCtxDone, pollTimerWaits,
                   pollFetches, pollObject, pollErr>>
    /\ UNCHANGED <<pollAnnotations, handleVars, builderVars, bmhVars, cliVars>>

\* WaitUntilDeleted up to its call of PollUntilContextTimeout, which does not
\* run the condition before the first interval has passed.
WaitUntilDeleted(valid) ==
    /\ pollPc = "idle"
    /\ pollKind' = "WaitUntilDeleted"
    /\ IF valid
       THEN /\ pollPc' = "select"
            /\ pollErr' = Nil
       ELSE /\ pollPc' = "done"
            /\ pollErr' = errInvalidBuilder
    /\ UNCHANGED <<pollTarget, pollCluster, pollCtxDone, pollTimerWaits,
                   pollFetches, pollObject>>
    /\ UNCHANGED <<pollAnnotations, handleVars, builderVars, bmhVars, cliVars>>

\* WaitUntilInStatus up to its call of PollUntilContextTimeout, which runs the
\* condition at once.
WaitUntilInStatus(status, valid) ==
    /\ pollPc = "idle"
    /\ pollKind' = "WaitUntilInStatus"
    /\ pollTarget' = status
    /\ IF valid
       THEN /\ pollPc' = "check"
            /\ pollErr' = Nil
       ELSE /\ pollPc' = "done"
            /\ pollErr' = errInvalidBuilder
    /\ UNCHANGED <<pollCluster, pollCtxDone, pollTimerWaits, pollFetches,
                   pollObject>>
    /\ UNCHANGED <<pollAnnotations, handleVars, builderVars, bmhVars, cliVars>>

\* WaitUntilAnnotationExists up to its call of PollUntilContextTimeout, which
\* runs the condition at once: it rejects an empty key and an object that
\* builder.Exists() does not find.
WaitUntilAnnotationExists(annotation, valid, fail) ==
    /\ pollPc = "idle"
    /\ pollKind' = "WaitUntilAnnotationExists"
    /\ pollTarget' = annotation
    /\ IF ~valid
       THEN /\ pollPc' = "done"
            /\ pollErr' = errInvalidBuilder
       ELSE IF annotation = ""
            THEN /\ pollPc' = "done"
                 /\ pollErr' = MsgEmptyAnnotation
            ELSE IF Get(pollCluster, pollAnnotations, fail).err # Nil
                 THEN /\ pollPc' = "done"
                      /\ pollErr' = MsgDoesNotExist
                 ELSE /\ pollPc' = "check"
                      /\ pollErr' = Nil
    /\ UNCHANGED <<pollCluster, pollCtxDone, pollTimerWaits, pollFetches,
                   pollObject>>
    /\ UNCHANGED <<pollAnnotations, handleVars, builderVars, bmhVars, cliVars>>

\* The cluster's controllers put the annotation on the object or take it off.
ClusterAnnotate ==
    /\ pollPc # "done"
    /\ pollCluster # "absent"
    /\ pollAnnotations' =
            IF pollAnnotations = {}
            THEN {a \in Annotations : a # ""}
            ELSE {}
    /\ UNCHANGED <<pollKind, pollTarget, pollCluster, pollPc, pollCtxDone,
                   pollTimerWaits, pollFetches, pollObject, pollErr>>
    /\ UNCHANGED <<handleVars, builderVars, bmhVars, cliVars>>

\* The timeout passed to PollUntilContextTimeout elapses.
PollDeadlinePasses ==
    /\ pollPc \in {"check", "select"}
    /\ ~pollCtxDone
    /\ pollCtxDone' = TRUE
    /\ UNCHANGED <<pollKind, pollTarget, pollCluster, pollPc, pollTimerWaits,
                   pollFetches, pollObject, pollErr>>
    /\ UNCHANGED <<pollAnnotations, handleVars, builderVars, bmhVars, cliVars>>

\* One call of the waiter's condition function by the poll loop, which
\* returns when the condition holds or fails and waits otherwise.
PollCondition(fail) ==
    /\ pollPc = "check"
    /\ LET got == Get(pollCluster, pollAnnotations, fail)
           res == IF pollKind = "WaitUntilDeleted"
                  THEN UntilDeletedCond(got)
                  ELSE IF pollKind = "WaitUntilInStatus"
                       THEN UntilInStatusCond(got, pollTarget)
                       ELSE UntilAnnotationExistsCond(got, pollTarget)
       IN  /\ pollFetches' = Append(pollFetches, got)
           /\ pollObject' = IF pollKind = "WaitUntilDeleted"
                            THEN pollObject
                            ELSE got.obj
           /\ IF res.err # Nil \/ res.ok
              THEN /\ pollPc' = "done"
                   /\ pollErr' = res.err
              ELSE /\ pollPc' = "select"
                   /\ pollErr' = pollErr
    /\ UNCHANGED <<pollKind, pollTarget, pollCluster, pollCtxDone,
                   pollTimerWaits>>
    /\ UNCHANGED <<pollAnnotations, handleVars, builderVars, bmhVars, cliVars>>

\* The poll loop's select receives from the interval timer: it returns the
\* context's error if the deadline has passed and calls the condition
\* otherwise.
PollTimerFires ==
    /\ pollPc = "select"
    /\ Len(pollFetches) < MaxFetches
    /\ pollTimerWaits' = pollTimerWaits + 1
    /\ IF pollCtxDone
       THEN /\ pollPc' = "done"
            /\ pollErr' = DeadlineExceeded
       ELSE /\ pollPc' = "check"
            /\ pollErr' = pollErr
    /\ UNCHANGED <<pollKind, pollTarget, pollCluster, pollCtxDone,
                   pollFetches, pollObject>>
    /\ UNCHANGED <<pollAnnotations, handleVars, builderVars, bmhVars, cliVars>>

\* Mutant of PollCtxDone: a poll that times out reports success.
PollCtxDoneSucceeds ==
    /\ pollPc = "select"
    /\ pollCtxDone
    /\ pollPc' = "done"
    /\ pollErr' = Nil
    /\ UNCHANGED <<pollKind, pollTarget, pollCluster, pollCtxDone,
                   pollTimerWaits, pollFetches, pollObject>>
    /\ UNCHANGED <<pollAnnotations, handleVars, builderVars, bmhVars, cliVars>>

\* The poll loop's select finds the context done.
PollCtxDone ==
    /\ pollPc = "select"
    /\ pollCtxDone
    /\ pollPc' = "done"
    /\ pollErr' = DeadlineExceeded
    /\ UNCHANGED <<pollKind, pollTarget, pollCluster, pollCtxDone,
                   pollTimerWaits, pollFetches, pollObject>>
    /\ UNCHANGED <<pollAnnotations, handleVars, builderVars, bmhVars, cliVars>>

PollNext ==
    \/ \E state \in ProvisioningStates \cup {"absent"} : ClusterSet(state)
    \/ \E valid \in BOOLEAN : WaitUntilDeleted(valid)
    \/ \E status \in ProvisioningStates, valid \in BOOLEAN :
            WaitUntilInStatus(status, valid)
    \/ \E annotation \in Annotations, valid \in BOOLEAN, fail \in BOOLEAN :
            WaitUntilAnnotationExists(annotation, valid, fail)
    \/ ClusterAnnotate
    \/ PollDeadlinePasses
    \/ \E fail \in BOOLEAN : PollCondition(fail)
    \/ PollTimerFires
    \/ PollCtxDone

PollSpec == Init /\ [][PollNext]_vars

\* The steps of the caller inside PollUntilContextTimeout.
PollStep ==
    \/ \E fail \in BOOLEAN : PollCondition(fail)
    \/ PollTimerFires
    \/ PollCtxDone

\* The calling goroutine keeps running, the interval timer keeps firing and
\* the deadline of context.WithTimeout passes.
FairPollSpec ==
    /\ PollSpec
    /\ WF_vars(PollStep)
    /\ WF_vars(PollDeadlinePasses)

\* ------------------------------------------------- poll waiters: properties
LastFetch == pollFetches[Len(pollFetches)]

Polling == pollPc \in {"check", "select"}

\* A fetch that makes the waiter's predicate true.
Satisfies(got) ==
    IF pollKind = "WaitUntilDeleted"
    THEN got.err = NotFound
    ELSE IF pollKind = "WaitUntilInStatus"
         THEN got.err = Nil /\ got.obj = pollTarget
         ELSE got.err = Nil /\ pollTarget \in got.annotations

\* A fetch that fails with an error other than not-found.
FailedFetch(got) == got.err # Nil /\ got.err # NotFound

\* C14: WaitUntilDeleted returns success only when its last fetch reported
\* not-found and every fetch before it returned the object; after a fetch that
\* returned the object it is still polling or has timed out, never successful.
C14_DeletedOnlyOnNotFound ==
    pollKind = "WaitUntilDeleted" =>
        /\ (pollPc = "done" /\ pollErr = Nil) =>
            /\ pollFetches # << >>
            /\ LastFetch.err = NotFound
            /\ \A i \in 1..(Len(pollFetches) - 1) : pollFetches[i].err = Nil
        /\ (pollFetches # << >> /\ LastFetch.err = Nil) =>
            \/ Polling
            \/ pollPc = "done" /\ pollErr = DeadlineExceeded

\* C14 witness: the object was fetched once, then reported not found, and
\* WaitUntilDeleted returned nil.
C14_Witness ==
    /\ pollKind = "WaitUntilDeleted"
    /\ pollPc = "done"
    /\ pollErr = Nil
    /\ Len(pollFetches) = 2
    /\ pollFetches[1].err = Nil
    /\ pollFetches[2].err = NotFound

\* C15: in WaitUntilDeleted a fetch that fails with an error other than
\* not-found is the last fetch: the waiter has returned with that very error,
\* also when its deadline has passed by then.
C15_DeletedFatalFetch ==
    pollKind = "WaitUntilDeleted" =>
        \A i \in 1..Len(pollFetches) :
            FailedFetch(pollFetches[i]) =>
                /\ i = Len(pollFetches)
                /\ pollPc = "done"
                /\ pollErr = pollFetches[i].err
                /\ pollErr # DeadlineExceeded

\* C15 witness: the second fetch of a deletion wait failed after the deadline
\* had passed, and the waiter returned the fetch's error.
C15_Witness ==
    /\ pollKind = "WaitUntilDeleted"
    /\ pollCtxDone
    /\ Len(pollFetches) = 2
    /\ pollFetches[1].err = Nil
    /\ pollErr = ApiError("get")

\* C16: a poll waiter that is polling returns eventually; when no fetch made
\* its predicate true and none was fatal it has returned deadline-exceeded,
\* which it returns only once the deadline has passed.
C16_TimeoutIsDeadlineExceeded ==
    /\ Polling ~> (pollPc = "done")
    /\ [](/\ pollPc = "done"
          /\ pollErr \notin {errInvalidBuilder, MsgEmptyAnnotation,
                           MsgDoesNotExist}
          /\ \A i \in 1..Len(pollFetches) :
                /\ ~Satisfies(pollFetches[i])
                /\ pollKind = "WaitUntilDeleted" => ~FailedFetch(pollFetches[i])
          => /\ pollErr = DeadlineExceeded
             /\ pollCtxDone)
    /\ [](pollErr = DeadlineExceeded => pollCtxDone /\ pollPc = "done")

\* C16 witness: a status wait fetched the object twice, never in the target
\* state, and returned deadline-exceeded.
C16_Witness ==
    /\ pollKind = "WaitUntilInStatus"
    /\ pollPc = "done"
    /\ pollErr = DeadlineExceeded
    /\ Len(pollFetches) = 2
    /\ \A i \in 1..2 : pollFetches[i].err = Nil /\ pollFetches[i].obj # pollTarget

\* C17 as stated: when the first fetch of a waiter already satisfies its
\* predicate, the waiter returns success and has not waited for the interval
\* timer before that fetch.
C17_FirstCheckAtOnce ==
    (pollPc = "done" /\ pollFetches # << >> /\ Satisfies(pollFetches[1])) =>
        /\ pollErr = Nil
        /\ pollTimerWaits = 0

\* C18: WaitUntilInStatus has returned success exactly when its last fetch
\* returned the object in the target state; a fetch that failed, with
\* not-found or any other error, is never returned and leaves the waiter
\* polling until it succeeds or times out.
C18_StatusWait ==
    pollKind = "WaitUntilInStatus" =>
        /\ (pollPc = "done" /\ pollErr = Nil) <=>
                (pollFetches # << >> /\ Satisfies(LastFetch))
        /\ (pollPc = "done" /\ pollErr = Nil) => pollObject = pollTarget
        /\ pollPc = "done" =>
                pollErr \in {Nil, DeadlineExceeded, errInvalidBuilder}
        /\ (pollFetches # << >> /\ LastFetch.err # Nil) =>
            \/ Polling
            \/ pollPc = "done" /\ pollErr = DeadlineExceeded

\* C18 witness: a status wait whose first fetch failed and whose second fetch
\* found no object returned success on a third fetch in the target state.
C18_Witness ==
    /\ pollKind = "WaitUntilInStatus"
    /\ pollPc = "done"
    /\ pollErr = Nil
    /\ Len(pollFetches) = 3
    /\ pollFetches[1].err = ApiError("get")
    /\ pollFetches[2].err = NotFound
    /\ pollFetches[3].obj = pollTarget

\* ------------------------------------------------------- resource builders
\* The packages whose builders are modelled: PtpConfig stands for
\* PtpOperatorConfig as well, whose methods are the same code.
BuilderKinds == {"ingress", "ptpConfig", "application"}

\* Calls to the cluster API one Update makes at most: Get and Update, then
\* Get and Delete in Delete, then Get and Create in Create.
UpdateApiCalls == 6

\* The client's error for creating an object that exists.
AlreadyExists == <<"already exists">>

\* fmt.Errorf("cannot update non-existent ...") and its ingress counterpart.
errNonExistent == <<"cannot update non-existent object">>

MsgCannotDelete(kind) ==
    IF kind = "ingress"
    THEN "cannot delete ingress"
    ELSE "can not delete argocd application"

MsgCannotUpdate == "cannot update ingress"

\* The state a method starts from: the cluster, the builder's fields, the
\* outcomes the API will give to its calls (fails[i]: the i-th call fails),
\* and what passing a nil object to the client does.
CallState(fails, nilArg) ==
    [cluster |-> bCluster, object |-> bObject, rv |-> bDefRV,
     calls |-> << >>, fails |-> fails, nilArg |-> nilArg,
     ok |-> FALSE, ret |-> "nil", err |-> Nil]

\* One call of builder.apiClient: Get, Create, Update or Delete.
ApiCall(st, verb) ==
    LET e == IF Head(st.fails)
             THEN ApiError(verb)
             ELSE IF verb = "create"
                  THEN IF st.cluster = "absent" THEN Nil ELSE AlreadyExists
                  ELSE IF st.cluster = "absent" THEN NotFound ELSE Nil
    IN  [st EXCEPT !.fails = Tail(@),
                   !.calls = Append(@, [verb |-> verb, err |-> e]),
                   !.err = e,
                   !.cluster = IF e # Nil
                               THEN @
                               ELSE IF verb \in {"create", "update"}
                                    THEN "definition"
                                    ELSE IF verb = "delete"
                                         THEN "absent"
                                         ELSE @]

GetCallWithoutValidate(kind, valid, st) ==
    LET a == ApiCall(st, "get")
    IN  [a EXCEPT !.ret = IF a.err = Nil THEN "fetched" ELSE "nil"]

\* builder.Get: ret is the object it returns.
GetCall(kind, valid, st) ==
    IF ~valid
    THEN [st EXCEPT !.ret = "nil", !.err = errInvalidBuilder]
    ELSE LET a == ApiCall(st, "get")
         IN  [a EXCEPT !.ret = IF a.err = Nil THEN "fetched" ELSE "nil"]

\* builder.Exists: stores what Get returned in builder.Object; the ingress
\* builder answers err == nil, the others err == nil || !IsNotFound(err).
ExistsCall(kind, valid, st) ==
    IF ~valid
    THEN [st EXCEPT !.ok = FALSE]
    ELSE LET g == GetCall(kind, valid, st)
         IN  [g EXCEPT !.object = g.ret,
                       !.ok = IF kind = "ingress"
                              THEN g.err = Nil
                              ELSE g.err = Nil \/ ~IsNotFound(g.err)]

\* builder.Delete. The PtpConfig builder hands builder.Object to the client,
\* the others builder.Definition.
DeleteCall(kind, valid, st) ==
    LET ret == IF kind = "application" THEN "builder" ELSE "none"
    IN  IF ~valid
        THEN [st EXCEPT !.ret = ret, !.err = errInvalidBuilder]
        ELSE LET e == ExistsCall(kind, valid, st)
             IN  IF ~e.ok
                 THEN [e EXCEPT !.object = "nil", !.ret = ret, !.err = Nil]
                 ELSE IF kind = "ptpConfig" /\ e.object = "nil"
                      THEN IF e.nilArg = "panic"
                           THEN [e EXCEPT !.ret = "panic"]
                           ELSE [e EXCEPT
                                   !.calls = Append(@,
                                       [verb |-> "delete",
                                        err |-> ApiError("delete")]),
                                   !.ret = ret,
                                   !.err = ApiError("delete")]
                      ELSE LET a == ApiCall(e, "delete")
                           IN  IF a.err # Nil
                               THEN [a EXCEPT
                                       !.ret = ret,
                                       !.err = IF kind = "ptpConfig"
                                               THEN a.err
                                               ELSE Wrap(MsgCannotDelete(kind),
                                                         a.err)]
                               ELSE [a EXCEPT !.object = "nil", !.ret = ret,
                                              !.err = Nil]

\* Mutant of CreateCall: the create call is made without asking Exists.
CreateCallWithoutExists(kind, valid, st) ==
    IF ~valid
    THEN [st EXCEPT !.ret = IF kind = "ptpConfig" THEN "nil" ELSE "builder",
                    !.err = errInvalidBuilder]
    ELSE LET a == ApiCall(st, "create")
         IN  IF a.err # Nil
             THEN [a EXCEPT !.ret = IF kind = "application"
                                    THEN "builder"
                                    ELSE "nil"]
             ELSE [a EXCEPT !.object = "definition", !.ret = "builder"]

\* builder.Create: no API call when Exists answers true.
CreateCall(kind, valid, st) ==
    IF ~valid
    THEN [st EXCEPT !.ret = IF kind = "ptpConfig" THEN "nil" ELSE "builder",
                    !.err = errInvalidBuilder]
    ELSE LET e == ExistsCall(kind, valid, st)
         IN  IF e.ok
             THEN [e EXCEPT !.object = IF kind = "ingress"
                                       THEN "definition"
                                       ELSE @,
                            !.ret = "builder",
                            !.err = Nil]
             ELSE LET a == ApiCall(e, "create")
                  IN  IF a.err # Nil
                      THEN [a EXCEPT !.ret = IF kind = "application"
                                             THEN "builder"
                                             ELSE "nil"]
                      ELSE [a EXCEPT !.object = "definition",
                                     !.ret = "builder"]

\* The fallback of Update(force) after a failed API update: Delete, reset of
\* the Definition's resource version, Create.
ForceFallback(kind, valid, st) ==
    LET d == DeleteCall(kind, valid, st)
    IN  IF d.ret = "panic"
        THEN d
        ELSE IF d.err # Nil
             THEN [d EXCEPT !.rv = "", !.ret = "nil"]
             ELSE CreateCall(kind, valid, [d EXCEPT !.rv = ""])

\* builder.Update. The ingress builder's Update takes no force argument and
\* never falls back.
UpdateCall(kind, valid, force, st) ==
    IF ~valid
    THEN [st EXCEPT !.ret = IF kind = "ptpConfig" THEN "nil" ELSE "builder",
                    !.err = errInvalidBuilder]
    ELSE LET e == ExistsCall(kind, valid, st)
         IN  IF ~e.ok
             THEN [e EXCEPT !.ret = "nil", !.err = errNonExistent]
             ELSE IF kind # "application" /\ e.object = "nil"
                  THEN [e EXCEPT !.ret = "panic"]
                  ELSE LET v == IF kind = "application"
                                THEN e
                                ELSE [e EXCEPT !.rv = "fetched"]
                           u == ApiCall(v, "update")
                       IN  IF u.err # Nil /\ force /\ kind # "ingress"
                           THEN ForceFallback(kind, valid, u)
                           ELSE IF u.err = Nil
                                THEN [u EXCEPT !.object = "definition",
                                               !.ret = "builder"]
                                ELSE IF kind = "application"
                                     THEN [u EXCEPT !.object = "definition",
                                                    !.ret = "builder"]
                                     ELSE [u EXCEPT
                                             !.ret = "nil",
                                             !.err = IF kind = "ingress"
                                                     THEN Wrap(MsgCannotUpdate,
                                                               u.err)
                                                     ELSE u.err]

\* The outcomes the API may give to the calls of one method.
Outcomes == [1..UpdateApiCalls -> BOOLEAN]

NilArgOutcomes == {"panic", "error"}

\* A method has returned st: the cluster and the builder's fields are as it
\* left them.
Returned(name, force, st, ret) ==
    /\ bOp' = [name |-> name, force |-> force]
    /\ bCluster' = st.cluster
    /\ bObject' = st.object
    /\ bDefRV' = st.rv
    /\ bCalls' = st.calls
    /\ bRet' = ret
    /\ bErr' = st.err
    /\ UNCHANGED <<bKind, bValid>>
    /\ UNCHANGED <<handleVars, pollVars, bmhVars, cliVars>>

\* A builder is made, valid or carrying an error message.
NewBuilder(kind, valid) ==
    /\ bKind = "none"
    /\ bKind' = kind
    /\ bValid' = valid
    /\ UNCHANGED <<bCluster, bObject, bDefRV, bOp, bCalls, bRet, bErr>>
    /\ UNCHANGED <<handleVars, pollVars, bmhVars, cliVars>>

\* Test setup or another client puts the object into the cluster or removes
\* it.
ClusterApply ==
    /\ bRet # "panic"
    /\ bCluster' = IF bCluster = "absent" THEN "existing" ELSE "absent"
    /\ UNCHANGED <<bKind, bValid, bObject, bDefRV, bOp, bCalls, bRet, bErr>>
    /\ UNCHANGED <<handleVars, pollVars, bmhVars, cliVars>>

Callable == bKind # "none" /\ bRet # "panic"

BuilderGet ==
    /\ Callable
    /\ \E fails \in Outcomes :
        LET st == GetCall(bKind, bValid, CallState(fails, "panic"))
        IN  Returned("Get", FALSE, st, st.ret)

Exists ==
    /\ Callable
    /\ \E fails \in Outcomes :
        LET st == ExistsCall(bKind, bValid, CallState(fails, "panic"))
        IN  Returned("Exists", FALSE, [st EXCEPT !.err = Nil],
                     IF st.ok THEN "true" ELSE "false")

Create ==
    /\ Callable
    /\ \E fails \in Outcomes :
        LET st == CreateCall(bKind, bValid, CallState(fails, "panic"))
        IN  Returned("Create", FALSE, st, st.ret)

Update(force) ==
    /\ Callable
    /\ bKind = "ingress" => ~force
    /\ \E fails \in Outcomes, nilArg \in NilArgOutcomes :
        LET st == UpdateCall(bKind, bValid, force,
                             CallState(fails, nilArg))
        IN  Returned("Update", force, st, st.ret)

Delete ==
    /\ Callable
    /\ \E fails \in Outcomes, nilArg \in NilArgOutcomes :
        LET st == DeleteCall(bKind, bValid, CallState(fails, nilArg))
        IN  Returned("Delete", FALSE, st, st.ret)

BuilderNext ==
    \/ \E kind \in BuilderKinds, valid \in BOOLEAN : NewBuilder(kind, valid)
    \/ ClusterApply
    \/ BuilderGet
    \/ Exists
    \/ Create
    \/ \E force \in BOOLEAN : Update(force)
    \/ Delete

BuilderSpec == Init /\ [][BuilderNext]_vars

\* ---------------------------------------------- resource builders: properties
\* The positions of the calls of one API verb among the last method's calls.
CallsOf(verb) == {i \in 1..Len(bCalls) : bCalls[i].verb = verb}

\* C19 as stated: Exists returns true if and only if its Get retrieved the
\* object; when it returns true builder.Object is not nil, and when the Get
\* failed it returns false.
C19_ExistsIffRetrieved ==
    bOp.name = "Exists" =>
        /\ bRet = "true" <=> (bCalls # << >> /\ bCalls[1].err = Nil)
        /\ bRet = "true" => bObject # "nil"
        /\ (bCalls # << >> /\ bCalls[1].err # Nil) => bRet = "false"

\* C20 as stated: when Update(force = true) has retrieved the existing
\* object and its API update call failed, it calls the API's delete and then
\* its create; a failed delete is returned and no create is made, and after a
\* successful delete the create is made and its error, or nil, is returned.
C20_ForceFallback ==
    (/\ bOp.name = "Update"
     /\ bOp.force
     /\ bRet # "panic"
     /\ bCalls # << >>
     /\ bCalls[1].err = Nil
     /\ \E u \in CallsOf("update") : bCalls[u].err # Nil)
    => /\ CallsOf("delete") # {}
       /\ \A d \in CallsOf("delete") :
            /\ \A u \in CallsOf("update") : u < d
            /\ bCalls[d].err # Nil =>
                /\ CallsOf("create") = {}
                /\ Contains(bErr, "api call failed")
                /\ Contains(bErr, "delete")
            /\ bCalls[d].err = Nil =>
                \E c \in CallsOf("create") :
                    /\ d < c
                    /\ bErr = bCalls[c].err

BmcAddresses == {"", "1.1.1.1"}
BmcSecretNames == {"", "testsecret"}
BootMacAddresses == {"", "AA:BB:CC:11:22:33"}
bootModeAcceptable == {"UEFI", "UEFISecureBoot", "legacy"}
BootModes == {"UEFISecureBoot", "test"}
HintValues == {"", "123"}

MsgEmptyBmcAddress == <<"BMH 'bmcAddress' cannot be empty">>
MsgEmptyBmcSecretName == <<"BMH 'bmcSecretName' cannot be empty">>
MsgBadBootMode == <<"not acceptable 'bootMode' value">>
MsgEmptyBootMacAddress == <<"BMH 'bootMacAddress' cannot be empty">>
MsgEmptyDeviceName ==
    <<"the baremetalhost rootDeviceHint deviceName cannot be empty">>
MsgEmptyModel == <<"the baremetalhost rootDeviceHint model cannot be empty">>
MsgEmptyVendor == <<"the baremetalhost rootDeviceHint vendor cannot be empty">>
MsgOptionError == <<"error">>

\* &bmhv1alpha1.RootDeviceHints{}
EmptyHints == [deviceName |-> "", model |-> "", vendor |-> ""]

\* A builder value b is the record [err, def, applied]: the stored error, the
\* Definition's fields, and the options invoked on it by WithOptions.

\* builder.validate(): common.Validate rejects a builder with a stored error.
BmhValid(b) == b.err = Nil

\* bmh.NewBuilder: each argument is checked in turn and written to the
\* Definition; the first one rejected sets the error and ends the function.
NewBmhBuilder(bmcAddress, bmcSecretName, bootMacAddress, bootMode) ==
    LET b0 == [err |-> Nil,
               def |-> [address |-> "", credentialsName |-> "",
                        bootMode |-> "", bootMACAddress |-> "",
                        rootDeviceHints |-> << >>],
               applied |-> << >>]
    IN  IF bmcAddress = ""
        THEN [b0 EXCEPT !.err = MsgEmptyBmcAddress]
        ELSE LET b1 == [b0 EXCEPT !.def.address = bmcAddress]
             IN  IF bmcSecretName = ""
                 THEN [b1 EXCEPT !.err = MsgEmptyBmcSecretName]
                 ELSE LET b2 == [b1 EXCEPT
                                   !.def.credentialsName = bmcSecretName]
                      IN  IF bootMode \notin bootModeAcceptable
                          THEN [b2 EXCEPT !.err = MsgBadBootMode]
                          ELSE LET b3 == [b2 EXCEPT
                                            !.def.bootMode = bootMode]
                               IN  IF bootMacAddress = ""
                                   THEN [b3 EXCEPT
                                           !.err = MsgEmptyBootMacAddress]
                                   ELSE [b3 EXCEPT
                                           !.def.bootMACAddress =
                                               bootMacAddress]

\* The hints a setter writes to: made empty when the Definition has none.
HintsOf(b) ==
    IF b.def.rootDeviceHints = << >> THEN EmptyHints
    ELSE b.def.rootDeviceHints[1]

WithRootDeviceDeviceNameCall(b, deviceName) ==
    IF ~BmhValid(b) THEN b
    ELSE IF deviceName = "" THEN [b EXCEPT !.err = MsgEmptyDeviceName]
    ELSE [b EXCEPT !.def.rootDeviceHints =
                       <<[HintsOf(b) EXCEPT !.deviceName = deviceName]>>]

WithRootDeviceModelCall(b, model) ==
    IF ~BmhValid(b) THEN b
    ELSE IF model = "" THEN [b EXCEPT !.err = MsgEmptyModel]
    ELSE [b EXCEPT !.def.rootDeviceHints =
                       <<[HintsOf(b) EXCEPT !.model = model]>>]

\* WithRootDeviceVendor assigns its argument to RootDeviceHints.Model.
WithRootDeviceVendorCall(b, vendor) ==
    IF ~BmhValid(b) THEN b
    ELSE IF vendor = "" THEN [b EXCEPT !.err = MsgEmptyVendor]
    ELSE [b EXCEPT !.def.rootDeviceHints =
                       <<[HintsOf(b) EXCEPT !.model = vendor]>>]

\* An option of WithOptions: a nil function, one that returns the builder it
\* was given and a nil error, or one that returns it with an error.
OptionKinds == {"nil", "accept", "reject"}

OptionLists == UNION {[1..n -> OptionKinds] : n \in 0..MaxOptions}

RECURSIVE ApplyOptionsPastError(_, _, _)
ApplyOptionsPastError(options, i, b) ==
    IF i > Len(options) THEN b
    ELSE IF options[i] = "nil" THEN ApplyOptionsPastError(options, i + 1, b)
    ELSE LET a == [b EXCEPT !.applied = Append(@, i)]
         IN  IF options[i] = "reject"
             THEN ApplyOptionsPastError(options, i + 1,
                                        [a EXCEPT !.err = MsgOptionError])
             ELSE ApplyOptionsPastError(options, i + 1, a)

\* The loop of WithOptions from option i on: a nil option is passed over, any
\* other is invoked, and the first error returned is stored and ends the loop.
RECURSIVE ApplyOptions(_, _, _)
ApplyOptions(options, i, b) ==
    IF i > Len(options) THEN b
    ELSE IF options[i] = "nil" THEN ApplyOptions(options, i + 1, b)
    ELSE LET a == [b EXCEPT !.applied = Append(@, i)]
         IN  IF options[i] = "reject"
             THEN [a EXCEPT !.err = MsgOptionError]
             ELSE ApplyOptions(options, i + 1, a)

WithOptionsCall(b, options) ==
    IF ~BmhValid(b) THEN b ELSE ApplyOptions(options, 1, b)

\* The builder as the variables hold it, before a call.
Bmh == [err |-> bmhErr, def |-> bmhDef, applied |-> << >>]

\* A method of the builder has returned b.
BmhReturned(name, arg, b) ==
    /\ bmhBuilt' = TRUE
    /\ bmhErr' = b.err
    /\ bmhDef' = b.def
    /\ bmhOp' = [name |-> name, arg |-> arg]
    /\ bmhApplied' = b.applied
    /\ UNCHANGED <<handleVars, pollVars, builderVars, cliVars>>

BmhNewBuilder(bmcAddress, bmcSecretName, bootMacAddress, bootMode) ==
    /\ ~bmhBuilt
    /\ bmhOptions' = << >>
    /\ BmhReturned("NewBuilder", bootMode,
                   NewBmhBuilder(bmcAddress, bmcSecretName, bootMacAddress,
                                 bootMode))

WithRootDeviceDeviceName(deviceName) ==
    /\ bmhBuilt
    /\ bmhOptions' = << >>
    /\ BmhReturned("WithRootDeviceDeviceName", deviceName,
                   WithRootDeviceDeviceNameCall(Bmh, deviceName))

WithRootDeviceModel(model) ==
    /\ bmhBuilt
    /\ bmhOptions' = << >>
    /\ BmhReturned("WithRootDeviceModel", model,
                   WithRootDeviceModelCall(Bmh, model))

WithRootDeviceVendor(vendor) ==
    /\ bmhBuilt
    /\ bmhOptions' = << >>
    /\ BmhReturned("WithRootDeviceVendor", vendor,
                   WithRootDeviceVendorCall(Bmh, vendor))

WithOptions(options) ==
    /\ bmhBuilt
    /\ bmhOptions' = options
    /\ BmhReturned("WithOptions", "", WithOptionsCall(Bmh, options))

BmhNext ==
    \/ \E bmcAddress \in BmcAddresses, bmcSecretName \in BmcSecretNames,
          bootMacAddress \in BootMacAddresses, bootMode \in BootModes :
            BmhNewBuilder(bmcAddress, bmcSecretName, bootMacAddress, bootMode)
    \/ \E deviceName \in HintValues : WithRootDeviceDeviceName(deviceName)
    \/ \E model \in HintValues : WithRootDeviceModel(model)
    \/ \E vendor \in HintValues : WithRootDeviceVendor(vendor)
    \/ \E options \in OptionLists : WithOptions(options)

BmhSpec == Init /\ [][BmhNext]_vars

\* One builder is exercised in a behaviour: a resource builder with its
\* cluster, a poll waiter, or a BareMetalHost builder under construction.
BuildersNext ==
    \/ PollIdle /\ BmhIdle /\ BuilderNext
    \/ BuilderIdle /\ BmhIdle /\ PollNext
    \/ BuilderIdle /\ PollIdle /\ BmhNext

BuildersSpec == Init /\ [][BuildersNext]_vars

\* A call of Get, Exists, Create, Update or Delete.
BuilderMethod ==
    \/ BuilderGet
    \/ Exists
    \/ Create
    \/ \E force \in BOOLEAN : Update(force)
    \/ Delete

\* A call of a poll waiter on a builder validate() rejects.
InvalidWait ==
    \/ WaitUntilDeleted(FALSE)
    \/ \E status \in ProvisioningStates : WaitUntilInStatus(status, FALSE)
    \/ \E annotation \in Annotations, fail \in BOOLEAN :
        WaitUntilAnnotationExists(annotation, FALSE, fail)

\* A call of a Definition setter or of WithOptions.
BmhSetter ==
    \/ \E deviceName \in HintValues : WithRootDeviceDeviceName(deviceName)
    \/ \E model \in HintValues : WithRootDeviceModel(model)
    \/ \E vendor \in HintValues : WithRootDeviceVendor(vendor)
    \/ \E options \in OptionLists : WithOptions(options)

\* C22: a method called on a builder that validate() rejects makes no call to
\* the cluster API and leaves the Definition, the cluster and the stored
\* error as they were: Get, Create, Update and Delete return the validation
\* error and Exists returns false; a poll waiter returns the validation error
\* without a fetch; a setter or WithOptions returns the builder as it was.
C22_InvalidBuilderNoCall ==
    [][/\ (bKind # "none" /\ ~bValid /\ BuilderMethod) =>
            /\ bCalls' = << >>
            /\ bDefRV' = bDefRV
            /\ bCluster' = bCluster
            /\ bObject' = bObject
            /\ IF bOp'.name = "Exists"
               THEN bRet' = "false"
               ELSE bErr' = errInvalidBuilder
       /\ InvalidWait =>
            /\ pollFetches' = << >>
            /\ pollObject' = pollObject
            /\ pollPc' = "done"
            /\ pollErr' = errInvalidBuilder
       /\ (bmhErr # Nil /\ BmhSetter) =>
            /\ bmhDef' = bmhDef
            /\ bmhErr' = bmhErr
            /\ bmhApplied' = << >>]_vars

\* C22 witness: Delete was called on an invalid PtpConfig builder whose object
\* is in the cluster.
C22_Witness ==
    /\ bKind = "ptpConfig" /\ ~bValid /\ bCluster = "existing"
    /\ bOp.name = "Delete" /\ bErr = errInvalidBuilder

\* The positions of a list of options, in the order given.
Positions(options) == [i \in 1..Len(options) |-> i]

C24_VendorSet ==
    [][\A vendor \in HintValues :
        (bmhErr = Nil /\ vendor # "" /\ WithRootDeviceVendor(vendor)) =>
            /\ bmhDef'.rootDeviceHints # << >>
            /\ bmhDef'.rootDeviceHints[1].vendor = vendor]_vars

\* C25: the completion signal is emitted only after the stream's Stop has
\* been called, whichever way start left its loop: done is never closed, and
\* no Wait call has returned, while the stream is not stopped, and the step
\* that closes done finds the stream stopped.
C25_StoppedBeforeDone ==
    /\ [](done => stopCalls = 1)
    /\ [](returned # {} => done /\ stopCalls = 1)
    /\ [][(done' /\ ~done) => (stopCalls = 1 /\ stopCalls' = 1)]_vars
    /\ [][(pc' = "close" /\ pc # "close") =>
            stopCalls' = stopCalls + 1]_vars

\* C25 witness: the timeout ended the task, the stream was stopped and then a
\* Wait call returned the context's error.
C25_Witness ==
    /\ err = Wrap(MsgCtxDone, DeadlineExceeded)
    /\ parentErr = Nil
    /\ stopCalls = 1
    /\ done
    /\ returned = {err}

\* C26: the stored error is written at most once, by the step of start that
\* leaves the loop and before done is closed; once done is closed, and once a
\* Wait call has returned, it never changes.
C26_ResultWrittenOnce ==
    /\ [](errWrites <= 1 /\ (errWrites = 0 => err = Nil))
    /\ [][(err' # err \/ errWrites' # errWrites) =>
            /\ TaskStep
            /\ pc \in {"start", "loop"} /\ pc' = "cancel"
            /\ ~done /\ ~done'
            /\ returned = {}
            /\ errWrites' = errWrites + 1]_vars
    /\ [][done => (done' /\ err' = err /\ errWrites' = errWrites)]_vars

\* C26 witness: an error was stored once, done was closed and two Wait calls
\* returned it.
C26_Witness ==
    /\ errWrites = 1
    /\ done
    /\ waitCalls = 2
    /\ waiting = 0
    /\ returned = {err}
    /\ err = <<MsgClosed>>

\* Every event sent so far, in the order sent: those received by the loop,
\* then those still buffered.
Arrived == consumed \o resultChan

\* C27: the loop receives the events in the order they were sent, none
\* skipped or repeated, and the invocations of the condition function are,
\* one for one and in that order, the received events other than BOOKMARK and
\* ERROR, the n-th invocation getting the n-th of them; for ADDED then
\* MODIFIED with a condition true on its second invocation there are exactly
\* two invocations, start has left the loop and every Wait returns nil.
C27_EventsInOrder ==
    /\ [][\/ Arrived' = Arrived
          \/ /\ \E ev \in Events : Arrived' = Append(Arrived, ev)
             /\ consumed' = consumed]_vars
    /\ [](/\ Len(calls) = Len(SelectSeq(consumed, IsCallable))
          /\ \A i \in 1..Len(calls) :
                /\ calls[i].ev = SelectSeq(consumed, IsCallable)[i]
                /\ calls[i].met = CondCall(cond, i, calls[i].ev).met
                /\ calls[i].err = CondCall(cond, i, calls[i].ev).err)
    /\ [](/\ cond = "trueOnSecondCall"
          /\ Len(consumed) = 2
          /\ consumed[1].Type = "ADDED"
          /\ consumed[2].Type = "MODIFIED"
          => /\ Len(calls) = 2
             /\ ~calls[1].met /\ calls[2].met
             /\ PastLoop
             /\ err = Nil
             /\ returned \subseteq {Nil})

\* C27 witness: ADDED then MODIFIED were received, the condition was invoked
\* twice and Wait returned nil.
C27_Witness ==
    /\ cond = "trueOnSecondCall"
    /\ Len(consumed) = 2
    /\ consumed[1].Type = "ADDED"
    /\ consumed[2].Type = "MODIFIED"
    /\ Len(calls) = 2
    /\ returned = {Nil}

\* C28 as stated: when the Handle's context became done only after an event
\* that meets the condition was next on the stream, start ends with a nil
\* error.
C28_EventFirstWins ==
    (pc = "exited" /\ eventFirst) => err = Nil

\* C28 amended: a step of start that finds an event meeting the condition
\* next on the stream and the context not done receives that event and
\* leaves the loop with a nil error; when the context became done after such
\* an event was next, start ends with a nil error or with "handle context
\* done" wrapping the context's error, and with nothing else.
C28_EventOrContext ==
    /\ [][(pc = "loop" /\ SatisfyingNext /\ ctxErr = Nil /\ TaskStep) =>
            /\ consumed' = Append(consumed, Head(resultChan))
            /\ Len(calls') = Len(calls) + 1
            /\ pc' = "cancel"
            /\ err' = Nil]_vars
    /\ []((pc = "exited" /\ eventFirst) =>
            \/ err = Nil /\ calls # << >> /\ calls[Len(calls)].met
            \/ err = Wrap(MsgCtxDone, ctxErr) /\ ctxErr # Nil)

\* C28 witness: the timeout elapsed while a satisfying event was next, start
\* received the event all the same and Wait returned nil.
C28_Witness ==
    /\ eventFirst
    /\ ctxErr = DeadlineExceeded
    /\ pc = "exited"
    /\ err = Nil
    /\ returned = {Nil}

\* The three ways a poll waiter ends.
PollSuccess ==
    /\ pollErr = Nil
    /\ pollFetches # << >>
    /\ Satisfies(LastFetch)

PollTimeout ==
    /\ pollErr = DeadlineExceeded
    /\ pollCtxDone
    /\ pollFetches # << >> => ~Satisfies(LastFetch)

\* A fatal error: the builder or the arguments are rejected before the first
\* fetch, or a fetch of WaitUntilDeleted fails with an error other than
\* not-found.
PollFatal ==
    \/ /\ pollFetches = << >>
       /\ pollErr \in {errInvalidBuilder, MsgEmptyAnnotation, MsgDoesNotExist}
    \/ /\ pollKind = "WaitUntilDeleted"
       /\ pollFetches # << >>
       /\ FailedFetch(LastFetch)
       /\ pollErr = LastFetch.err

\* C29: a poll waiter that is polling returns eventually; when it has
\* returned, exactly one of success, timeout and fatal error is its outcome
\* and that outcome stays; while it is polling it has no result yet and each
\* of its steps leaves its arguments alone and makes at most one more fetch.
C29_PollEndsInOneOutcome ==
    /\ Polling ~> (pollPc = "done")
    /\ [](pollPc = "done" =>
            Cardinality({o \in {"success", "timeout", "fatal"} :
                \/ o = "success" /\ PollSuccess
                \/ o = "timeout" /\ PollTimeout
                \/ o = "fatal" /\ PollFatal}) = 1)
    /\ [](Polling => pollErr = Nil)
    /\ [][Polling =>
            /\ pollKind' = pollKind
            /\ pollTarget' = pollTarget
            /\ \/ pollFetches' = pollFetches
               \/ /\ pollPc = "check"
                  /\ Len(pollFetches') = Len(pollFetches) + 1
                  /\ SubSeq(pollFetches', 1, Len(pollFetches)) = pollFetches
            /\ pollPc' # "idle"]_vars
    /\ [][pollPc = "done" =>
            UNCHANGED <<pollPc, pollErr, pollFetches, pollKind>>]_vars

\* C29 witness: WaitUntilAnnotationExists fetched the object once without
\* the annotation and once with it, and returned nil.
C29_Witness ==
    /\ pollKind = "WaitUntilAnnotationExists"
    /\ pollPc = "done"
    /\ pollErr = Nil
    /\ Len(pollFetches) = 2
    /\ pollFetches[1].err = Nil
    /\ pollFetches[1].annotations = {}
    /\ pollTarget \in pollFetches[2].annotations

\* ------------------------------------------------------- BMC.RunCLICommand

\* The results of sshSession.Run or CombinedOutput.
CommandErrors == {"nil", "error"}

\* RunCLICommand up to its select: CreateCLISSHSession fails and the call
\* returns, or the session is open, its Close is deferred, the goroutine that
\* runs the command is started on the unbuffered errCh and the timer is set.
RunCLICommand(connected, combineOutput) ==
    /\ cliPc \in {"idle", "returned"}
    /\ cliRuns < MaxRuns
    /\ cliRuns' = cliRuns + 1
    /\ cliTimer' = FALSE
    /\ cliCombine' = [cliCombine EXCEPT ![cliRuns + 1] = combineOutput]
    /\ IF connected
       THEN /\ cliPc' = "select"
            /\ cliSession' = [cliSession EXCEPT ![cliRuns + 1] = "open"]
            /\ cliGo' = [cliGo EXCEPT ![cliRuns + 1] = "run"]
            /\ cliRet' = cliRet
       ELSE /\ cliPc' = "returned"
            /\ cliRet' = [cliRet EXCEPT ![cliRuns + 1] = "connect error"]
            /\ UNCHANGED <<cliSession, cliGo>>
    /\ UNCHANGED <<cliSent, cliOut>>
    /\ UNCHANGED <<handleVars, pollVars, builderVars, bmhVars>>

\* The command of call r ends by itself: its goroutine goes on to send the
\* result on errCh.
CommandEnds(r, e) ==
    /\ cliGo[r] = "run"
    /\ cliSession[r] = "open"
    /\ cliGo' = [cliGo EXCEPT ![r] = "send"]
    /\ cliSent' = [cliSent EXCEPT ![r] = e]
    /\ UNCHANGED <<cliRuns, cliPc, cliSession, cliTimer, cliRet, cliCombine,
                   cliOut>>
    /\ UNCHANGED <<handleVars, pollVars, builderVars, bmhVars>>

\* The session of call r was closed under its running command: Run returns
\* an error and the goroutine goes on to send it on errCh.
CommandCut(r) ==
    /\ cliGo[r] = "run"
    /\ cliSession[r] = "closed"
    /\ cliGo' = [cliGo EXCEPT ![r] = "send"]
    /\ cliSent' = [cliSent EXCEPT ![r] = "error"]
    /\ UNCHANGED <<cliRuns, cliPc, cliSession, cliTimer, cliRet, cliCombine,
                   cliOut>>
    /\ UNCHANGED <<handleVars, pollVars, builderVars, bmhVars>>

\* The duration given to time.After has passed: timeoutCh holds a value.
TimerFires ==
    /\ cliPc = "select"
    /\ ~cliTimer
    /\ cliTimer' = TRUE
    /\ UNCHANGED <<cliRuns, cliPc, cliSession, cliGo, cliSent, cliRet,
                   cliCombine, cliOut>>
    /\ UNCHANGED <<handleVars, pollVars, builderVars, bmhVars>>

\* select, case <-timeoutCh: the call returns the timeout error and the
\* deferred Close closes the session. Nothing receives from errCh any more.
SelectTimeout ==
    /\ cliPc = "select"
    /\ cliTimer
    /\ cliPc' = "returned"
    /\ cliRet' = [cliRet EXCEPT ![cliRuns] = "timeout"]
    /\ cliSession' = [cliSession EXCEPT ![cliRuns] = "closed"]
    /\ cliOut' = [cliOut EXCEPT ![cliRuns] = "stdoutBuffer"]
    /\ UNCHANGED <<cliRuns, cliTimer, cliGo, cliSent, cliCombine>>
    /\ UNCHANGED <<handleVars, pollVars, builderVars, bmhVars>>

\* select, case err := <-errCh: the send of the goroutine and the receive of
\* the caller happen together, the goroutine ends, the call returns the
\* command's result and the deferred Close closes the session.
SelectResult ==
    /\ cliPc = "select"
    /\ cliGo[cliRuns] = "send"
    /\ cliGo' = [cliGo EXCEPT ![cliRuns] = "exited"]
    /\ cliPc' = "returned"
    /\ cliRet' = [cliRet EXCEPT ![cliRuns] =
                    IF cliSent[cliRuns] = "nil" THEN "ok" ELSE "run error"]
    /\ cliSession' = [cliSession EXCEPT ![cliRuns] = "closed"]
    /\ cliOut' = [cliOut EXCEPT ![cliRuns] =
                    IF cliSent[cliRuns] = "nil" /\ cliCombine[cliRuns]
                    THEN "combinedOutput"
                    ELSE "stdoutBuffer"]
    /\ UNCHANGED <<cliRuns, cliTimer, cliSent, cliCombine>>
    /\ UNCHANGED <<handleVars, pollVars, builderVars, bmhVars>>

CliNext ==
    \/ \E connected \in BOOLEAN, combineOutput \in BOOLEAN :
            RunCLICommand(connected, combineOutput)
    \/ \E r \in 1..MaxRuns, e \in CommandErrors : CommandEnds(r, e)
    \/ \E r \in 1..MaxRuns : CommandCut(r)
    \/ TimerFires
    \/ SelectTimeout
    \/ SelectResult

CliSpec == Init /\ [][CliNext]_vars

\* The timer fires, the caller's select takes a ready case, a command whose
\* session is closed returns, and a goroutine whose send has a receiver
\* completes it.
FairCliSpec ==
    /\ CliSpec
    /\ WF_vars(TimerFires)
    /\ WF_vars(SelectTimeout \/ SelectResult)
    /\ \A r \in 1..MaxRuns : WF_vars(CommandCut(r))

\* C30 as stated: the goroutine of a call that returned the timeout error
\* ends eventually.
C30_GoroutineEnds ==
    \A r \in 1..MaxRuns : (cliRet[r] = "timeout") ~> (cliGo[r] = "exited")

====
